---- MODULE Spec2Model ----
(***************************************************************************)
(* A model of the cab-booking dialogue agent (57Ajay/b69).                 *)
(*                                                                         *)
(* The repository holds two generations of the dialogue engine:            *)
(*   - the "execute" handlers (src/src/lngraph/nodes/*_node.py with an     *)
(*     execute method) driven turn by turn from src/main.py; they work on  *)
(*     all_drivers / current_drivers / full_trip_details;                  *)
(*   - the LangGraph state graph of src/src/lngraph/graph.py, whose nodes  *)
(*     (the __call__ nodes) route through next_node, with the session      *)
(*     layer of builder.py and state_manager.py on top.                    *)
(* Spec models the first, SpecGraph the second, SpecSession the session    *)
(* layer and the shared cache.  SpecCollector runs the slot collector of   *)
(* the first on its own; SpecWorking models the tool-calling agent of      *)
(* src/working/langgraph-bot.                                              *)
(*                                                                         *)
(* Encoding: Python None is the string "None" where the field holds        *)
(* strings and 0 where it holds a driver; a driver is its id; a dict is a  *)
(* function on the set of its keys.                                        *)
(***************************************************************************)
EXTENDS Integers, Sequences, FiniteSets, TLC

VARIABLES
    state,      \* main.py: conversation_state, the AgentState of the one CLI session
    cache,      \* the Redis store behind DriversAPIClient: the cached pages under
                \* their keys, oldest first (one TTL for all: the oldest expires first)
    last,       \* history: what the last turn did (handler, requested page, outcome)
    gstate,     \* graph.py: the AgentState threaded through the state graph
    ginput,     \* graph.py: the state process_message was called with (the running turn)
    node,       \* graph.py: the node the graph is about to run ("END": between turns)
    steps,      \* graph.py: super-steps taken in the running turn
    ghist,      \* history: what the last node did (tool outcome, failures in a row)
    store,      \* state_manager.py: session id -> saved state
    req,        \* builder.py: each request's position in process_message and its state
    glog,       \* history: operations on the shared stores, with the session they ran for
    wstate,     \* working/langgraph-bot main.py: user_conversations[user_id]
    wlast       \* history: the last tool call of tool_executor_node and its output

vars == <<state, cache, last, gstate, ginput, node, steps, ghist, store, req, glog,
          wstate, wlast>>

(***************************************************************************)
(* Bounds of the model.                                                    *)
(***************************************************************************)
\* drivers the backend directory lists for the populated city
NumDrivers == 12
\* the largest page number a turn may request
MaxPage == 3

(***************************************************************************)
(* Program constants.                                                      *)
(***************************************************************************)
\* initialize_agent_node.py: "page_size": 10
page_size == 10
\* main.py: "limit": 5
limit == 5

None == "None"

Min(a, b) == IF a < b THEN a ELSE b

\* (mutant) a merge in which the values already present win
DictMerge_old_wins(a, b) ==
    [k \in (DOMAIN a) \cup (DOMAIN b) |-> IF k \in DOMAIN a THEN a[k] ELSE b[k]]

\* dict.update / {**a, **b}: b's keys win, a's other keys survive
DictMerge(a, b) == [k \in (DOMAIN a) \cup (DOMAIN b) |-> IF k \in DOMAIN b THEN b[k] ELSE a[k]]

\* conversation_state.update(result): the fields a handler returns replace the state's
Merge(s, u) == [k \in DOMAIN s |-> IF k \in DOMAIN u THEN u[k] ELSE s[k]]

EmptyDict == [k \in {} |-> None]

Range(seq) == {seq[i] : i \in 1..Len(seq)}

(***************************************************************************)
(* The backend directory (external): what an HTTP search answers.          *)
(***************************************************************************)
Cities == {"jaipur", "ooty"}

DriverIds == 1..NumDrivers

\* a city with more drivers than two pages of a search hold
LargeCity == "delhi"

LargeCityDrivers == 2 * 10 + 2

\* the directory's listing of a city, in the backend's sort order
Directory(city) ==
    IF city = "jaipur" THEN [i \in 1..NumDrivers |-> i]
    ELSE IF city = LargeCity THEN [i \in 1..LargeCityDrivers |-> i]
    ELSE <<>>

\* the directory's drivers by gender: a few "other" (4, 12, ...), else male or female
Gender(d) == IF d % 8 = 4 THEN "other" ELSE IF d % 2 = 1 THEN "male" ELSE "female"

\* the filters the backend applies: the query parameters _build_driver_filters passes
BackendMatches(d, filters) == ("gender" \in DOMAIN filters) => (Gender(d) = filters["gender"])

BackendListing(city, filters) ==
    LET Keep(d) == BackendMatches(d, filters)
    IN  SelectSeq(Directory(city), Keep)

\* one page of the backend's answer with its pagination block
BackendPage(city, page, lim, filters) ==
    LET all == BackendListing(city, filters)
    IN  [drivers  |-> SubSeq(all, (page - 1) * lim + 1, Min(page * lim, Len(all))),
         total    |-> Len(all),
         has_more |-> page * lim < Len(all)]

(***************************************************************************)
(* DriversAPIClient and its Redis cache (src/src/services).                *)
(***************************************************************************)
\* the session id of the CLI process's one DriversAPIClient (main.py)
CliSession == "s1"

\* f"{self.session_id}_{city}_{page}"
_generate_cache_key(session_id, city, page) == <<session_id, city, page>>

CacheKeys(c) == {c[i].key : i \in 1..Len(c)}

CacheValue(c, key) == c[CHOOSE i \in 1..Len(c) : c[i].key = key].data

\* RedisService.get: the value, or None (here a record with hit FALSE)
_get_from_cache(c, key) ==
    IF key \in CacheKeys(c) THEN [hit |-> TRUE, data |-> CacheValue(c, key)]
    ELSE [hit |-> FALSE, data |-> [drivers |-> <<>>, total |-> 0, has_more |-> FALSE]]

\* RedisService.delete
CacheDelete(c, key) ==
    LET Other(e) == e.key # key
    IN  SelectSeq(c, Other)

\* RedisService.set (setex): the key now holds the page, with a fresh TTL
_save_to_cache(c, key, data) == Append(CacheDelete(c, key), [key |-> key, data |-> data])

\* get_drivers: a cached page is returned whatever the filters of the call are, else
\* the HTTP request runs (net: "ok" or "http_error"); a good answer is cached under
\* (session, city, page) when use_cache is set
get_drivers(c, session_id, city, page, lim, filters, use_cache, net) ==
    LET key    == _generate_cache_key(session_id, city, page)
        cached == _get_from_cache(c, key)
        data   == BackendPage(city, page, lim, filters)
    IN  IF use_cache /\ cached.hit
        THEN [success |-> TRUE, data |-> cached.data, cache |-> c]
        ELSE IF net = "ok"
        THEN [success |-> TRUE, data |-> data,
              cache |-> IF use_cache THEN _save_to_cache(c, key, data) ELSE c]
        ELSE [success |-> FALSE, data |-> cached.data, cache |-> c]

\* _get_driver_detail: found only in the cached page of the key; a miss raises
\* (here 0: no driver)
_get_driver_detail(c, key, driverId) ==
    LET cached == _get_from_cache(c, key)
    IN  IF cached.hit /\ driverId \in Range(cached.data.drivers) THEN driverId ELSE 0

(***************************************************************************)
(* The tools of DriverTools (src/src/lngraph/tools/driver_tools.py).       *)
(***************************************************************************)
\* the fields of SearchDriversInput a filter dict can reach the client through: the
\* tool's schema drops every other key of the call
SchemaFilterKeys == {"gender", "married"}

SchemaFilters(api_filters) ==
    [k \in (DOMAIN api_filters) \cap SchemaFilterKeys |-> api_filters[k]]

\* search_drivers_tool: success with the page, or success False with the error
search_drivers_tool(c, session_id, city, page, lim, api_filters, use_cache, net) ==
    LET result == get_drivers(c, session_id, city, page, lim, SchemaFilters(api_filters),
                              use_cache, net)
    IN  [success  |-> result.success,
         drivers  |-> IF result.success THEN result.data.drivers ELSE <<>>,
         count    |-> IF result.success THEN Len(result.data.drivers) ELSE 0,
         total    |-> IF result.success THEN result.data.total ELSE 0,
         has_more |-> IF result.success THEN result.data.has_more ELSE FALSE,
         cache    |-> result.cache]

\* get_driver_info_tool: reads the cached page only
get_driver_info_tool(c, session_id, city, page, driverId) ==
    LET driver == _get_driver_detail(c, _generate_cache_key(session_id, city, page), driverId)
    IN  [success |-> driver # 0, driver |-> driver]

\* book_or_confirm_ride_with_driver: the driver's contact from the cached page
book_or_confirm_ride_with_driver(c, session_id, city, page, driverId) ==
    LET driver == _get_driver_detail(c, _generate_cache_key(session_id, city, page), driverId)
    IN  [success |-> driver # 0, driver |-> driver]

(***************************************************************************)
(* Drivers as the handlers keep them in the state.                         *)
(***************************************************************************)
\* a DriverModel object, as search_drivers_tool returns it
DriverModel(d) == [driver_id |-> d, kind |-> "DriverModel"]

\* {"driver_name": driver.name, "driver_id": driver.id}
DriverDetailsForState(d) == [driver_id |-> d, kind |-> "dict"]

NoDriver == [driver_id |-> 0, kind |-> "None"]

AsModels(ids) == [i \in 1..Len(ids) |-> DriverModel(ids[i])]

AsEntries(ids) == [i \in 1..Len(ids) |-> DriverDetailsForState(ids[i])]

Ids(drivers) == {drivers[i].driver_id : i \in 1..Len(drivers)}

\* driver["driver_name"] on every entry: a DriverModel is not subscriptable (TypeError)
Subscriptable(drivers) == \A i \in 1..Len(drivers) : drivers[i].kind = "dict"

\* The names of the directory: a search term is the name of driver n (0: none said).
\* The name of driver n + 10 is the name of driver n followed by a surname.
NameEquals(d, n) == d = n

\* the driver's name contains the search term
NameContains(d, n) == d = n \/ d = n + 10

\* a word of the driver's name (longer than 2) occurs in the search term
NamePartIn(d, n) == d = n \/ n = d + 10 \/ d = n + 10

FirstIndex(S) == CHOOSE i \in S : \A j \in S : i <= j

\* (mutant) a lookup that falls back to the first driver when no name matches
_find_driver_by_name_guessing(drivers, search_name) ==
    LET matching == {i \in 1..Len(drivers) : NamePartIn(drivers[i].driver_id, search_name)}
    IN  IF matching # {} THEN drivers[FirstIndex(matching)]
        ELSE IF drivers # <<>> THEN drivers[1]
        ELSE NoDriver

\* _find_driver_by_name: exact match, then name contains term, then a part in the term
_find_driver_by_name(drivers, search_name) ==
    LET exact   == {i \in 1..Len(drivers) : NameEquals(drivers[i].driver_id, search_name)}
        partial == {i \in 1..Len(drivers) : NameContains(drivers[i].driver_id, search_name)}
        reverse == {i \in 1..Len(drivers) : NamePartIn(drivers[i].driver_id, search_name)}
    IN  IF exact # {} THEN drivers[FirstIndex(exact)]
        ELSE IF partial # {} THEN drivers[FirstIndex(partial)]
        ELSE IF reverse # {} THEN drivers[FirstIndex(reverse)]
        ELSE NoDriver

(***************************************************************************)
(* The conversation state of main.py and the execute handlers.             *)
(***************************************************************************)
\* main.py: conversation_state, with the page_size InitializeAgentNode sets
InitialState ==
    [search_city       |-> None,
     current_page      |-> 1,
     page_size         |-> page_size,
     limit             |-> limit,
     active_filters    |-> EmptyDict,
     is_filtered       |-> FALSE,
     current_drivers   |-> <<>>,
     all_drivers       |-> <<>>,
     total_results     |-> 0,
     has_more_results  |-> FALSE,
     selected_driver   |-> NoDriver,
     booking_status    |-> "none",
     booking_details   |-> 0,
     pickupLocation    |-> None,
     dropLocation      |-> None,
     trip_type         |-> "one-way",
     trip_duration     |-> 0,
     full_trip_details |-> FALSE,
     last_error        |-> None,
     failed_node       |-> None]

\* Python truth value of a text slot: None and "" count as not set
Falsy(v) == v \in {None, ""}

\* (mutant) a slot is replaced by whatever the extraction returned
PyOr_extracted(a, b) == a

\* a or b
PyOr(a, b) == IF Falsy(a) THEN b ELSE a

\* a or b for the duration in days (None and 0 count as not set: both 0 here)
PyOrDays(a, b) == IF a = 0 THEN b ELSE a

\* has_complete_info: pickup and drop and trip type and (trip type or duration); the
\* code stores the last operand, here its truth value
HasCompleteInfo(updated_pickup, updated_drop, updated_trip_type, updated_duration) ==
    /\ ~Falsy(updated_pickup)
    /\ ~Falsy(updated_drop)
    /\ ~Falsy(updated_trip_type)
    /\ (~Falsy(updated_trip_type) \/ updated_duration # 0)

\* (mutant) completion that leaves the record of the failed node in place
CompleteUpdate_keeps_failed_node(updated_pickup) ==
    [search_city |-> updated_pickup, last_error |-> None]

\* what a complete collection writes besides the slots
CompleteUpdate(updated_pickup) ==
    [search_city |-> updated_pickup, last_error |-> None, failed_node |-> None]

\* TripInfoCollectionNode.execute; ok: the extraction call returned
TripInfoCollectionNode_execute(s, ok, pickup, drop, ttype, duration) ==
    LET updated_pickup    == IF ok THEN PyOr(pickup, s.pickupLocation) ELSE s.pickupLocation
        updated_drop      == IF ok THEN PyOr(drop, s.dropLocation) ELSE s.dropLocation
        updated_trip_type == IF ok THEN PyOr(ttype, s.trip_type) ELSE s.trip_type
        updated_duration  == IF ok THEN PyOrDays(duration, s.trip_duration)
                             ELSE s.trip_duration
        \* the "special handling" branches cannot fire: the first needs pickup both
        \* absent and present, the second a pickup different from itself
        has_complete_info == HasCompleteInfo(updated_pickup, updated_drop,
                                             updated_trip_type, updated_duration)
        update_dict == [pickupLocation    |-> updated_pickup,
                        dropLocation      |-> updated_drop,
                        trip_type         |-> updated_trip_type,
                        trip_duration     |-> updated_duration,
                        full_trip_details |-> has_complete_info]
    IN  IF has_complete_info
        THEN DictMerge(update_dict, CompleteUpdate(updated_pickup))
        ELSE DictMerge(update_dict, [last_error  |-> "missing trip information",
                                     failed_node |-> "trip_info_collection"])

\* What a handler run yields: the update it returns (conversation_state.update), the
\* cache after its calls, whether it raised instead of returning, and for the history
\* the page it requested (0: none) and whether a backend page came back.
Outcome(upd, c, page, fetched) ==
    [upd |-> upd, cache |-> c, raised |-> FALSE, page |-> page, fetched |-> fetched]

Raised(c) ==
    [upd |-> EmptyDict, cache |-> c, raised |-> TRUE, page |-> 0, fetched |-> FALSE]

\* SearchDriversNode.execute; city: what the extraction yields when the state has no
\* search_city; net: the outcome of the tool call ("ok", "http_error", "raise")
SearchDriversNode_execute(s, c, city, net) ==
    LET the_city == IF s.search_city # None THEN s.search_city ELSE city
        tool_response == search_drivers_tool(c, CliSession, the_city, s.current_page,
                                             s.page_size, EmptyDict, TRUE, net)
    IN  IF the_city = None
        THEN Outcome([last_error |-> "need a city", failed_node |-> "search_drivers_node"],
                     c, 0, FALSE)
        ELSE IF net = "raise"
        THEN Outcome([last_error      |-> "system error",
                      failed_node     |-> "search_drivers_node",
                      current_drivers |-> <<>>], c, s.current_page, FALSE)
        ELSE IF tool_response.success
        THEN Outcome([search_city      |-> the_city,
                      current_drivers  |-> AsModels(tool_response.drivers),
                      total_results    |-> tool_response.total,
                      has_more_results |-> tool_response.has_more,
                      last_error       |-> None],
                     tool_response.cache, s.current_page, TRUE)
        ELSE Outcome([last_error      |-> "search failed",
                      failed_node     |-> "search_drivers_node",
                      current_drivers |-> <<>>], c, s.current_page, FALSE)

\* the filter vocabulary of FilterEntities the model draws from
FilterKeys == {"gender", "vehicle_types"}

FilterValues(k) == IF k = "gender" THEN {"male"} ELSE {"suv"}

\* _normalize_filter_values / _normalize_filters_for_api: state keys to API keys
NormalizedKey(k) == IF k = "vehicle_types" THEN "vehicleTypes" ELSE k

StateKeyOf(api_key, filters) == CHOOSE k \in DOMAIN filters : NormalizedKey(k) = api_key

_normalize_filter_values(filter_dict) ==
    [a \in {NormalizedKey(k) : k \in DOMAIN filter_dict} |->
        filter_dict[StateKeyOf(a, filter_dict)]]

\* FilterDriversNode.execute; extracted: the extraction returned; filter_dict: the
\* fields it set; clear_filters: clear_previous_filters; net: the tool call's outcome
FilterDriversNode_execute(s, c, extracted, filter_dict, clear_filters, net) ==
    LET updated_filters    == IF clear_filters THEN filter_dict
                              ELSE DictMerge(s.active_filters, filter_dict)
        normalized_filters == _normalize_filter_values(updated_filters)
        new_page           == s.current_page + 1
        tool_response      == search_drivers_tool(c, CliSession, s.search_city, new_page,
                                                  s.limit, normalized_filters, TRUE, net)
        current_drivers    == AsEntries(tool_response.drivers)
    IN  IF s.search_city = None
        THEN Outcome([last_error |-> "search first", failed_node |-> "filter_drivers_node"],
                     c, 0, FALSE)
        ELSE IF ~extracted
        THEN Outcome([last_error |-> "rephrase filter", failed_node |-> "filter_drivers_node"],
                     c, 0, FALSE)
        ELSE IF DOMAIN filter_dict = {} /\ ~clear_filters
        THEN Outcome([last_error |-> "be more specific"], c, 0, FALSE)
        ELSE IF net = "raise"
        THEN Outcome([last_error |-> "system error", failed_node |-> "filter_drivers_node"],
                     c, new_page, FALSE)
        ELSE IF tool_response.success
        THEN Outcome([current_drivers  |-> current_drivers,
                      all_drivers      |-> s.all_drivers \o current_drivers,
                      active_filters   |-> updated_filters,
                      last_error       |-> None,
                      is_filtered      |-> TRUE,
                      failed_node      |-> None,
                      selected_driver  |-> NoDriver,
                      current_page     |-> new_page,
                      has_more_results |-> tool_response.has_more,
                      total_results    |-> tool_response.total],
                     tool_response.cache, new_page, TRUE)
        \* a failed tool response carries no count: the "no drivers" branch always runs
        ELSE Outcome([last_error      |-> "no drivers matching criteria",
                      failed_node     |-> "filter_drivers_node",
                      current_drivers |-> <<>>,
                      all_drivers     |-> <<>>,
                      active_filters  |-> updated_filters,
                      is_filtered     |-> TRUE], c, new_page, FALSE)

\* MoreDriversNode._normalize_filters_for_api
_normalize_filters_for_api(filters) ==
    [a \in {NormalizedKey(k) : k \in DOMAIN filters} |-> filters[StateKeyOf(a, filters)]]

\* (mutant) the new page replaces all_drivers instead of being appended
MoreDriversNode_success_replacing(s, tool_response, next_page) ==
    [current_page     |-> next_page,
     current_drivers  |-> AsEntries(tool_response.drivers),
     all_drivers      |-> AsEntries(tool_response.drivers),
     total_results    |-> tool_response.total,
     has_more_results |-> tool_response.has_more,
     last_error       |-> None,
     failed_node      |-> None,
     active_filters   |-> s.active_filters,
     is_filtered      |-> s.is_filtered]

\* (mutant) the page cursor is left where it was after a page came back
MoreDriversNode_success_samepage(s, tool_response, next_page) ==
    [current_page     |-> s.current_page,
     current_drivers  |-> AsEntries(tool_response.drivers),
     all_drivers      |-> s.all_drivers \o AsEntries(tool_response.drivers),
     total_results    |-> tool_response.total,
     has_more_results |-> tool_response.has_more,
     last_error       |-> None,
     failed_node      |-> None,
     active_filters   |-> s.active_filters,
     is_filtered      |-> s.is_filtered]

\* MoreDriversNode.execute, the update returned when a non-empty page came back
MoreDriversNode_success(s, tool_response, next_page) ==
    LET new_driver_entries == AsEntries(tool_response.drivers)
    IN  [current_page     |-> next_page,
         current_drivers  |-> new_driver_entries,
         all_drivers      |-> s.all_drivers \o new_driver_entries,
         total_results    |-> tool_response.total,
         has_more_results |-> tool_response.has_more,
         last_error       |-> None,
         failed_node      |-> None,
         active_filters   |-> s.active_filters,
         is_filtered      |-> s.is_filtered]

\* MoreDriversNode.execute; net: the tool call's outcome
MoreDriversNode_execute(s, c, net) ==
    LET next_page          == s.current_page + 1
        normalized_filters == _normalize_filters_for_api(s.active_filters)
        tool_response      == search_drivers_tool(c, CliSession, s.search_city, next_page,
                                                  s.limit, normalized_filters, TRUE, net)
    IN  IF s.search_city = None
        THEN Outcome([last_error |-> "which city", failed_node |-> "more_drivers_node"],
                     c, 0, FALSE)
        ELSE IF ~s.has_more_results
        THEN Outcome([last_error |-> "all shown", failed_node |-> "more_drivers_node"],
                     c, 0, FALSE)
        ELSE IF net = "raise"
        THEN Outcome([last_error |-> "system error", failed_node |-> "more_drivers_node"],
                     c, next_page, FALSE)
        ELSE IF tool_response.success /\ tool_response.drivers = <<>>
        THEN Outcome([last_error |-> "no more drivers", failed_node |-> "more_drivers_node"],
                     tool_response.cache, next_page, FALSE)
        ELSE IF tool_response.success
        THEN Outcome(MoreDriversNode_success(s, tool_response, next_page),
                     tool_response.cache, next_page, TRUE)
        ELSE Outcome([last_error |-> "failed to fetch more", failed_node |-> "more_drivers_node"],
                     c, next_page, FALSE)

\* DriverInfoIntentNode.execute; identified: the extraction returned; name: the
\* driver_name it yields (0: none)
DriverInfoIntentNode_execute(s, c, identified, name) ==
    LET cache_key == _generate_cache_key(CliSession, s.search_city, s.current_page)
        cached    == _get_from_cache(c, cache_key)
        available_drivers ==
            IF s.current_drivers # <<>> THEN s.current_drivers
            ELSE IF s.all_drivers # <<>> THEN s.all_drivers
            ELSE AsEntries(cached.data.drivers)
        by_name   == IF name # 0 THEN _find_driver_by_name(available_drivers, name)
                     ELSE NoDriver
        target_driver == IF by_name # NoDriver THEN by_name ELSE s.selected_driver
        full_driver_info == get_driver_info_tool(c, CliSession, s.search_city,
                                                 s.current_page, target_driver.driver_id)
        \* the cache fallback appends to the list object of state["all_drivers"] itself
        in_place == IF s.current_drivers = <<>> /\ s.all_drivers = <<>>
                    THEN [all_drivers |-> available_drivers]
                    ELSE EmptyDict
    IN  IF ~s.full_trip_details
        THEN Outcome([last_error |-> "no trip details", failed_node |-> "driver_info_intent_node"],
                     c, 0, FALSE)
        ELSE IF s.search_city = None
        THEN Outcome([last_error |-> "no search location", failed_node |-> "get_driver_info_node"],
                     c, 0, FALSE)
        ELSE IF available_drivers = <<>>
        THEN Outcome([last_error |-> "no list of drivers", failed_node |-> "get_driver_info_node"],
                     c, 0, FALSE)
        \* driver_names = [driver["driver_name"] ...] runs outside every try
        ELSE IF ~Subscriptable(available_drivers)
        THEN Raised(c)
        ELSE IF ~identified
        THEN Outcome(DictMerge(in_place, [last_error  |-> "which driver",
                                          failed_node |-> "get_driver_info_node"]),
                     c, 0, FALSE)
        ELSE IF target_driver = NoDriver
        THEN Outcome(DictMerge(in_place, [last_error  |-> "driver not found",
                                          failed_node |-> "get_driver_info_node"]),
                     c, 0, FALSE)
        \* a failed lookup reads full_driver_info.msg off a dict: the AttributeError is
        \* caught by the handler's own except
        ELSE IF ~full_driver_info.success
        THEN Outcome(DictMerge(in_place, [last_error  |-> "system error",
                                          failed_node |-> "get_driver_info_node"]),
                     c, 0, FALSE)
        ELSE Outcome(DictMerge(in_place, [selected_driver |-> target_driver,
                                          last_error      |-> None,
                                          failed_node     |-> None]), c, 0, FALSE)

\* BookDriverNode.execute; identified: the extraction returned; name: the driver_name
\* it yields (0: none). The him/her fallback needs a selected driver inside the branch
\* taken only without one: it never applies.
BookDriverNode_execute(s, c, identified, name) ==
    LET by_name == IF name # 0 THEN _find_driver_by_name(s.all_drivers, name) ELSE NoDriver
        target_driver ==
            IF s.selected_driver # NoDriver THEN s.selected_driver
            ELSE by_name
        tool_response == book_or_confirm_ride_with_driver(c, CliSession, s.search_city,
                                                          s.current_page,
                                                          target_driver.driver_id)
    IN  IF ~s.full_trip_details
        THEN Outcome([last_error |-> "no trip details", failed_node |-> "book_driver_node"],
                     c, 0, FALSE)
        ELSE IF s.selected_driver = NoDriver /\ s.all_drivers = <<>>
        THEN Outcome([last_error |-> "no drivers to book", failed_node |-> "book_driver_node"],
                     c, 0, FALSE)
        ELSE IF s.selected_driver = NoDriver /\ ~identified
        THEN Outcome([last_error |-> "which driver", failed_node |-> "book_driver_node"],
                     c, 0, FALSE)
        ELSE IF target_driver = NoDriver
        THEN Outcome([last_error |-> "driver not found", failed_node |-> "book_driver_node"],
                     c, 0, FALSE)
        ELSE IF tool_response.success
        THEN Outcome([booking_status  |-> "confirmed",
                      booking_details |-> tool_response.driver,
                      selected_driver |-> target_driver,
                      last_error      |-> None], c, 0, FALSE)
        ELSE Outcome([last_error |-> "failed to get the driver", failed_node |-> "book_driver_node"],
                     c, 0, FALSE)

(***************************************************************************)
(* The turn loop of main.py. The graph it runs (create_agent_graph) is not *)
(* in the source tree: its router follows the written design, "Router".    *)
(***************************************************************************)
Intents == {"search", "info", "filter", "book", "more", "general"}

\* (intent, state) -> next stage
Router(intent, s) ==
    IF intent \in {"search", "filter", "book", "more"} /\ ~s.full_trip_details
    THEN "trip_info_collection"
    ELSE IF intent = "general" THEN "response"
    ELSE IF intent = "search" THEN "search"
    ELSE IF intent = "book" THEN (IF s.all_drivers = <<>> THEN "search" ELSE "book")
    ELSE IF intent = "info" THEN (IF s.all_drivers = <<>> THEN "response" ELSE "info")
    ELSE IF intent = "filter" THEN "filter"
    ELSE IF intent = "more" THEN (IF s.has_more_results THEN "more" ELSE "response")
    ELSE "response"

Routed(stage) == \E intent \in Intents : Router(intent, state) = stage

\* main.py: conversation_state["last_error"] = None before the graph runs
TurnStart(s) == [s EXCEPT !.last_error = None]

\* main.py: conversation_state.update(result); a raising graph clears the error fields
TurnEnd(s, out) ==
    IF out.raised THEN [s EXCEPT !.last_error = None, !.failed_node = None]
    ELSE Merge(s, out.upd)

\* the history of a turn: the handler, the page it requested (0: none), whether a page
\* came back, whether the handler raised, the clear flag of a filter turn, and whether
\* the handler returned a confirmed booking
History(op, out, clear) ==
    [op |-> op, page |-> out.page, fetched |-> out.fetched, raised |-> out.raised,
     clear |-> clear, confirmed |-> "booking_status" \in DOMAIN out.upd]

\* the outcomes of a tool call: the backend answers, the HTTP request fails, the call raises
NetOutcomes == {"ok", "http_error", "raise"}

\* what the extraction capability may yield
PickupInputs == Cities \cup {None}

DropInputs == {None, "agra"}

TripTypeInputs == {None}

DurationInputs == {0}

\* the driver names a user types
UserNames == {0, 1, 12}

FilterDicts == UNION {[K -> {"male", "suv"}] : K \in SUBSET FilterKeys}

FilterInputs == {f \in FilterDicts : \A k \in DOMAIN f : f[k] \in FilterValues(k)}

\* the variables of the other two specifications
graphVars == <<gstate, ginput, node, steps, ghist>>

sessionVars == <<store, req, glog>>

workVars == <<wstate, wlast>>

\* a turn routed to the Slot Collector
TripInfoTurn ==
    /\ Routed("trip_info_collection")
    /\ \E ok \in BOOLEAN, pickup \in PickupInputs, drop \in DropInputs,
          ttype \in TripTypeInputs, duration \in DurationInputs :
          LET s == TurnStart(state)
          IN  /\ state' = Merge(s, TripInfoCollectionNode_execute(s, ok, pickup, drop,
                                                                  ttype, duration))
              /\ last' = History("trip_info", Outcome(EmptyDict, cache, 0, FALSE), FALSE)
    /\ UNCHANGED <<cache, graphVars, sessionVars, workVars>>

\* a turn routed to the search handler
SearchTurn ==
    /\ Routed("search")
    /\ \E city \in PickupInputs, net \in NetOutcomes :
          LET s   == TurnStart(state)
              out == SearchDriversNode_execute(s, cache, city, net)
          IN  /\ state' = TurnEnd(s, out)
              /\ cache' = out.cache
              /\ last' = History("search", out, FALSE)
    /\ UNCHANGED <<graphVars, sessionVars, workVars>>

\* a turn routed to the filter handler
FilterTurn ==
    /\ Routed("filter")
    /\ state.current_page < MaxPage
    \* filter_dict is the extraction's result: there is none when the extraction fails
    /\ \E extracted \in BOOLEAN, clear_filters \in BOOLEAN, net \in NetOutcomes :
       \E filter_dict \in IF extracted THEN FilterInputs ELSE {EmptyDict} :
          LET s   == TurnStart(state)
              out == FilterDriversNode_execute(s, cache, extracted, filter_dict,
                                               clear_filters, net)
          IN  /\ state' = TurnEnd(s, out)
              /\ cache' = out.cache
              /\ last' = History("filter", out, clear_filters)
    /\ UNCHANGED <<graphVars, sessionVars, workVars>>

\* a turn routed to the pagination handler
MoreTurn ==
    /\ Routed("more")
    /\ state.current_page < MaxPage
    /\ \E net \in NetOutcomes :
          LET s   == TurnStart(state)
              out == MoreDriversNode_execute(s, cache, net)
          IN  /\ state' = TurnEnd(s, out)
              /\ cache' = out.cache
              /\ last' = History("more", out, FALSE)
    /\ UNCHANGED <<graphVars, sessionVars, workVars>>

\* a turn routed to the detail handler
InfoTurn ==
    /\ Routed("info")
    /\ \E identified \in BOOLEAN, name \in UserNames :
          LET s   == TurnStart(state)
              out == DriverInfoIntentNode_execute(s, cache, identified, name)
          IN  /\ state' = TurnEnd(s, out)
              /\ last' = History("info", out, FALSE)
    /\ UNCHANGED <<cache, graphVars, sessionVars, workVars>>

\* a turn routed to the booking handler
BookTurn ==
    /\ Routed("book")
    /\ \E identified \in BOOLEAN, name \in UserNames :
          LET s   == TurnStart(state)
              out == BookDriverNode_execute(s, cache, identified, name)
          IN  /\ state' = TurnEnd(s, out)
              /\ last' = History("book", out, FALSE)
    /\ UNCHANGED <<cache, graphVars, sessionVars, workVars>>

\* a turn routed to the response stage: no handler runs
ResponseTurn ==
    /\ Routed("response")
    /\ state' = TurnStart(state)
    /\ last' = History("response", Outcome(EmptyDict, cache, 0, FALSE), FALSE)
    /\ UNCHANGED <<cache, graphVars, sessionVars, workVars>>

\* RedisService.set keeps a page for cache_duration only: an entry expires
CacheExpire ==
    /\ cache # <<>>
    /\ cache' = Tail(cache)
    /\ last' = [last EXCEPT !.op = "expire"]
    /\ UNCHANGED <<state, graphVars, sessionVars, workVars>>

EmptyCache == <<>>

GraphIdle == gstate = 0 /\ ginput = 0 /\ node = "END" /\ steps = 0 /\ ghist = 0

SessionIdle == store = 0 /\ req = 0 /\ glog = 0

WorkIdle == wstate = 0 /\ wlast = 0

Init ==
    /\ state = InitialState
    /\ cache = EmptyCache
    /\ last = History("start", Outcome(EmptyDict, EmptyCache, 0, FALSE), FALSE)
    /\ GraphIdle
    /\ SessionIdle
    /\ WorkIdle

Next ==
    \/ TripInfoTurn
    \/ SearchTurn
    \/ FilterTurn
    \/ MoreTurn
    \/ InfoTurn
    \/ BookTurn
    \/ ResponseTurn
    \/ CacheExpire

Spec == Init /\ [][Next]_vars

(***************************************************************************)
(* The state graph: CabBookingGraph (src/src/lngraph/graph.py) and its     *)
(* __call__ nodes, one session, turn after turn through the builder.       *)
(***************************************************************************)
\* graph.py: config = {"recursion_limit": 10}
RecursionLimit == 10

\* error_handler_node.py: retry_count < 3; error_recovery_node.py: retry_count >= 3
MaxRetries == 3

\* FilterApplicationNode.MIN_RESULTS_THRESHOLD
MIN_RESULTS_THRESHOLD == 5

\* entry_node's except adds to retry_count without limit: the model stops it here
MaxRetryCount == 3

\* the replies of a turn are counted up to here
ReplyCap == 2

\* failures in a row are counted up to here
StreakCap == 3

\* a key the state dict does not hold
Absent == "absent"

END == "END"

\* the keys of self.nodes
NodeNames ==
    {"entry_node", "city_clarification_node", "driver_search_node",
     "filter_application_node", "filter_relaxation_node", "driver_details_node",
     "booking_confirmation_node", "pagination_node", "general_response_node",
     "no_results_handler_node", "error_handler_node", "error_recovery_node",
     "suggest_nearby_cities_node", "wait_for_user_input_node", "manual_assistance_node",
     "booking_complete_node"}

\* builder.create_session: initial_state, with the welcome message. messages is kept
\* as has_ai (an AIMessage other than the welcome one is in the list) and replies
\* (AIMessages appended since the turn's HumanMessage); of error_history the last
\* three entries are kept, which is all _is_retryable_context reads
GraphInitialState ==
    [pickup_city       |-> None,
     destination_city  |-> None,
     current_page      |-> 1,
     has_more_results  |-> FALSE,
     active_filters    |-> EmptyDict,
     current_drivers   |-> <<>>,
     selected_driver   |-> 0,
     booking_status    |-> "none",
     booking_details   |-> 0,
     retry_count       |-> 0,
     next_node         |-> "wait_for_user_input",
     last_error        |-> Absent,
     error_history     |-> <<>>,
     manual_mode       |-> FALSE,
     has_ai            |-> FALSE,
     replies           |-> 0]

\* state["messages"].append(AIMessage(...))
AddReply(s) == [s EXCEPT !.replies = Min(@ + 1, ReplyCap)]

\* route_next_node: the wait names end the run, an unknown name goes to the general
\* response node
route_next_node(s) ==
    IF s.next_node \in {"wait_for_user_input", "wait_for_user_input_node"} THEN END
    ELSE IF s.next_node \notin NodeNames THEN "general_response_node"
    ELSE s.next_node

\* EntryNode: the intents and what the extraction can yield in a turn
\* EntryNode.INTENT_GENERAL
INTENT_GENERAL == "general_query"

\* EntryNode.INTENT_*: the six intent tags
GraphIntents == {"search", "filter", "driver_info", "booking", "more_results", INTENT_GENERAL}

Unparsable == "unparsable"

\* what the LLM may answer to the extraction prompt as far as the intent goes: one of
\* the six tags, a tag of its own, a JSON object without "intent", or text that
\* json.loads rejects
ExtractionAnswers == GraphIntents \cup {"chitchat", Absent, Unparsable}

\* _extract_entities_and_intent: the parsed answer with "intent" defaulting to
\* INTENT_GENERAL; any exception gives INTENT_GENERAL with no cities and no filters
_extract_entities_and_intent(answer, pickup, destination, filters) ==
    IF answer = Unparsable
    THEN [intent |-> INTENT_GENERAL, pickup |-> None, destination |-> None,
          filters |-> EmptyDict, failed |-> TRUE]
    ELSE [intent |-> IF answer = Absent THEN INTENT_GENERAL ELSE answer,
          pickup |-> pickup, destination |-> destination, filters |-> filters,
          failed |-> FALSE]

GraphCityInputs == {None, "jaipur"}

GraphDestinationInputs == {None, "agra"}

\* no filter, one that few drivers match, one that no driver of the directory matches
GraphFilterInputs == {EmptyDict, [gender |-> "other"], [gender |-> "unspecified"]}

\* the ordinals of _extract_driver_reference the model uses, with their index
Ordinals == [first |-> 0, last |-> -1]

\* the references of the user who books: none of them raises
ReferenceInputs == {"none", "last", "context"}

\* Python's list[index]: 0 stands for IndexError
PyIndex(list, index) ==
    IF index >= 0
    THEN IF index < Len(list) THEN list[index + 1] ELSE 0
    ELSE IF Len(list) + index >= 0 THEN list[Len(list) + index + 1] ELSE 0

\* _extract_driver_reference: [raised, id]; an ordinal passes the guard
\* abs(index) <= len(current_drivers) and then indexes the list
_extract_driver_reference(ref, s) ==
    IF ref \in DOMAIN Ordinals
    THEN LET index == Ordinals[ref]
             size  == IF index < 0 THEN -index ELSE index
         IN  IF size <= Len(s.current_drivers)
             THEN [raised |-> PyIndex(s.current_drivers, index) = 0,
                   id     |-> PyIndex(s.current_drivers, index)]
             ELSE [raised |-> FALSE, id |-> 0]
    ELSE IF ref = "context" THEN [raised |-> FALSE, id |-> s.selected_driver]
    ELSE [raised |-> FALSE, id |-> 0]

\* _update_state_with_entities
_update_state_with_entities(s, intent, pickup, destination, filters, driver_reference) ==
    [s EXCEPT
       !.pickup_city      = IF pickup # None THEN pickup ELSE @,
       !.destination_city = IF destination # None THEN destination ELSE @,
       !.active_filters   = IF filters = EmptyDict THEN @
                            ELSE IF intent = "filter" THEN DictMerge(@, filters)
                            ELSE filters,
       !.selected_driver  = IF driver_reference # 0
                               /\ driver_reference \in Range(s.current_drivers)
                            THEN driver_reference ELSE @]

\* _determine_next_node
_determine_next_node(intent, s) ==
    IF intent \in {"search", "filter"} /\ s.pickup_city = None
    THEN "city_clarification_node"
    ELSE CASE intent = "search"       -> "driver_search_node"
           [] intent = "filter"       -> "filter_application_node"
           [] intent = "driver_info"  -> "driver_details_node"
           [] intent = "booking"      -> "booking_confirmation_node"
           [] intent = "more_results" -> "pagination_node"
           [] OTHER                   -> "general_response_node"

\* EntryNode.__call__: an exception (the IndexError of a positional reference) leaves
\* next_node as it was
EntryNode_call(s, intent, pickup, destination, filters, ref) ==
    LET found == _extract_driver_reference(ref, s)
        s2    == _update_state_with_entities(s, intent, pickup, destination, filters,
                                             found.id)
    IN  IF found.raised
        THEN [s EXCEPT !.last_error = "unknown", !.retry_count = @ + 1]
        ELSE [s2 EXCEPT !.next_node = _determine_next_node(intent, s2)]

\* CityClarificationNode.__call__: asks, and sends the run back to the entry node
CityClarificationNode_call(s) == [AddReply(s) EXCEPT !.next_node = "entry_node"]

\* what a direct call of a tool can do: run over a good or a failing HTTP exchange,
\* or raise before the tool's own try block
ToolCalls == {"ok", "http_error", "raise"}

\* the same for the tools that only read the cache
CacheToolCalls == {"ok", "raise"}

\* texts last_error can hold, by the words of ERROR_CATEGORIES' patterns they contain
ErrorWords(text) ==
    CASE text = "connection timeout"   -> {"connection", "timeout"}
      [] text = "1 validation error"   -> {"validation"}
      [] text = "TypeError in response" -> {"TypeError"}
      [] OTHER                         -> {}

\* the texts an exception of a tool call can carry
ExceptionTexts == {"connection timeout", "1 validation error", "TypeError in response"}

\* ERROR_CATEGORIES, in the order of the dict
ERROR_CATEGORIES ==
    << [name |-> "api_error", retry |-> TRUE,
        patterns |-> {"API", "HTTP", "connection", "timeout", "network"}],
       [name |-> "validation_error", retry |-> FALSE,
        patterns |-> {"validation", "invalid", "missing required", "parameter"}],
       [name |-> "data_error", retry |-> FALSE,
        patterns |-> {"KeyError", "AttributeError", "TypeError", "model_validate"}],
       [name |-> "cache_error", retry |-> TRUE,
        patterns |-> {"cache", "redis", "storage"}],
       [name |-> "tool_error", retry |-> TRUE,
        patterns |-> {"tool", "function", "failed to execute"}] >>

\* (mutant) a categoriser for which every category is retryable
_categorize_error_retryable(text) ==
    LET hits == {i \in 1..Len(ERROR_CATEGORIES) :
                    ERROR_CATEGORIES[i].patterns \cap ErrorWords(text) # {}}
    IN  IF hits = {} THEN [name |-> "unknown", retry |-> TRUE]
        ELSE [name |-> ERROR_CATEGORIES[FirstIndex(hits)].name, retry |-> TRUE]

\* _categorize_error: the first category with a pattern in the text, else unknown
\* (retry True); the text must be a string
_categorize_error(text) ==
    LET hits == {i \in 1..Len(ERROR_CATEGORIES) :
                    ERROR_CATEGORIES[i].patterns \cap ErrorWords(text) # {}}
    IN  IF hits = {} THEN [name |-> "unknown", retry |-> TRUE]
        ELSE [name  |-> ERROR_CATEGORIES[FirstIndex(hits)].name,
              retry |-> ERROR_CATEGORIES[FirstIndex(hits)].retry]

\* what a node hands back: the state, the cache, and for the history the outcome of
\* its tool call ("none", "success", "failure", "raise")
NodeResult(s, c, tool) == [s |-> s, cache |-> c, tool |-> tool]

\* the same for the filter node, with the number of calls of _search_with_filters
FilterResult(s, c, tool, fetches) == [s |-> s, cache |-> c, tool |-> tool, fetches |-> fetches]

\* DriverSearchNode.__call__
DriverSearchNode_call(s, c, call, text) ==
    LET page   == s.current_page
        result == search_drivers_tool(c, CliSession, s.pickup_city, page, page_size,
                                      s.active_filters, TRUE, call)
    IN  IF call = "raise"
        THEN NodeResult([s EXCEPT !.last_error = text,
                                  !.next_node = "error_handler_node"], c, "raise")
        ELSE IF result.success
        THEN NodeResult([AddReply(s) EXCEPT
                           !.current_drivers  = result.drivers,
                           !.has_more_results = result.has_more,
                           !.current_page     = page,
                           !.next_node        = IF Len(result.drivers) = 0
                                                THEN "no_results_handler_node"
                                                ELSE "wait_for_user_input"],
                        result.cache, "success")
        ELSE NodeResult([AddReply(s) EXCEPT !.last_error = "Failed to search drivers",
                                            !.next_node  = "error_recovery_node"],
                        c, "failure")

\* PaginationNode.__call__
PaginationNode_call(s, c, call, text) ==
    LET next_page == s.current_page + 1
        result    == search_drivers_tool(c, CliSession, s.pickup_city, next_page,
                                         page_size, s.active_filters, TRUE, call)
    IN  IF ~s.has_more_results
        THEN NodeResult([AddReply(s) EXCEPT !.next_node = "wait_for_user_input"], c, "none")
        ELSE IF call = "raise"
        THEN NodeResult([s EXCEPT !.last_error = text,
                                  !.next_node = "error_handler_node"], c, "raise")
        ELSE IF result.success /\ Len(result.drivers) = 0
        THEN NodeResult([AddReply(s) EXCEPT !.next_node = "wait_for_user_input"],
                        result.cache, "success")
        ELSE IF result.success
        THEN NodeResult([AddReply(s) EXCEPT
                           !.current_drivers  = result.drivers,
                           !.current_page     = next_page,
                           !.has_more_results = result.has_more,
                           !.next_node        = "wait_for_user_input"],
                        result.cache, "success")
        ELSE NodeResult([AddReply(s) EXCEPT !.next_node = "wait_for_user_input"],
                        c, "failure")

\* matches_filter of get_drivers_with_user_filter_via_cache_tool, for the gender key
matches_filter(d, filter_obj) ==
    ("gender" \in DOMAIN filter_obj) => (Gender(d) = filter_obj["gender"])

\* get_drivers_with_user_filter_via_cache_tool: filters the cached page of
\* (city, page) on the client side; no cached page is a failure
get_drivers_with_user_filter_via_cache_tool(c, session_id, city, page, filter_obj) ==
    LET cached    == _get_from_cache(c, _generate_cache_key(session_id, city, page))
        Matches(d) == matches_filter(d, filter_obj)
        filtered  == SelectSeq(cached.data.drivers, Matches)
    IN  [success |-> cached.hit,
         filtered_drivers |-> IF cached.hit THEN filtered ELSE <<>>,
         total |-> IF cached.hit THEN Len(filtered) ELSE 0]

\* FilterApplicationNode.__call__; _search_with_filters asks with limit 10 and
\* use_cache False
FilterApplicationNode_call(s, c, call, fresh, text) ==
    LET filter_result == get_drivers_with_user_filter_via_cache_tool(
                             c, CliSession, s.pickup_city, s.current_page, s.active_filters)
        total_filtered == filter_result.total
        search_result == search_drivers_tool(c, CliSession, s.pickup_city, s.current_page,
                                             10, s.active_filters, FALSE, fresh)
        routed(t) == [t EXCEPT !.next_node = IF total_filtered = 0
                                             THEN "filter_relaxation_node"
                                             ELSE "wait_for_user_input"]
    IN  IF s.current_drivers = <<>>
        THEN FilterResult([s EXCEPT !.next_node = "driver_search_node"], c, "none", 0)
        ELSE IF call = "raise"
        THEN FilterResult([s EXCEPT !.last_error = text,
                                    !.next_node = "error_handler_node"], c, "raise", 0)
        ELSE IF ~filter_result.success
        THEN FilterResult([AddReply(s) EXCEPT !.last_error = "No drivers found",
                                              !.next_node  = "error_recovery_node"],
                          c, "failure", 0)
        ELSE IF total_filtered < MIN_RESULTS_THRESHOLD /\ s.has_more_results
        THEN IF fresh = "raise"
             THEN FilterResult([AddReply(s) EXCEPT !.last_error = text,
                                                   !.next_node = "error_handler_node"],
                               c, "raise", 1)
             ELSE IF search_result.success
             THEN FilterResult(routed([AddReply(AddReply(s)) EXCEPT
                                         !.current_drivers  = search_result.drivers,
                                         !.has_more_results = search_result.has_more]),
                               search_result.cache, "success", 1)
             ELSE FilterResult(routed([AddReply(AddReply(s)) EXCEPT
                                         !.current_drivers = filter_result.filtered_drivers]),
                               c, "failure", 1)
        ELSE FilterResult(routed([AddReply(s) EXCEPT
                                    !.current_drivers = filter_result.filtered_drivers]),
                          c, "success", 0)

\* DriverDetailsNode.__call__: a failed or raising lookup answers from selected_driver
DriverDetailsNode_call(s, c, call) ==
    LET result == get_driver_info_tool(c, CliSession, s.pickup_city, s.current_page,
                                       s.selected_driver)
        done   == [AddReply(s) EXCEPT !.next_node = "wait_for_user_input"]
    IN  IF s.selected_driver = 0 THEN NodeResult(done, c, "none")
        ELSE IF call = "raise" THEN NodeResult(done, c, "raise")
        ELSE IF result.success
        THEN NodeResult([done EXCEPT !.selected_driver = result.driver], c, "success")
        ELSE NodeResult(done, c, "failure")

\* state["booking_details"] is kept as its driver_id; 0: the key is not set
NoBooking == 0

\* BookingConfirmationNode.__call__; needs_destination is the LLM's answer in
\* _check_if_destination_needed. The except of the inner try block (a raising
\* confirmation call) confirms the booking from the selected driver's own data
BookingConfirmationNode_call(s, c, needs_destination, call) ==
    LET result  == book_or_confirm_ride_with_driver(c, CliSession, s.pickup_city,
                                                    s.current_page, s.selected_driver)
        missing == s.pickup_city = None \/ (needs_destination /\ s.destination_city = None)
        confirmed == [AddReply(s) EXCEPT
                        !.booking_status  = "confirmed",
                        !.booking_details = s.selected_driver,
                        !.next_node       = "booking_complete_node"]
    IN  IF s.selected_driver = 0
        THEN NodeResult([AddReply(s) EXCEPT !.next_node = "wait_for_user_input"], c, "none")
        ELSE IF missing
        THEN NodeResult([AddReply(s) EXCEPT !.booking_status = "pending_info",
                                            !.next_node = "wait_for_user_input"], c, "none")
        ELSE IF call = "raise" THEN NodeResult(confirmed, c, "raise")
        ELSE IF result.success THEN NodeResult(confirmed, c, "success")
        ELSE NodeResult([AddReply(s) EXCEPT !.booking_status = "failed",
                                            !.next_node = "wait_for_user_input"],
                        c, "failure")

\* BookingCompleteNode.__call__
BookingCompleteNode_call(s) ==
    IF s.booking_details = NoBooking
    THEN [s EXCEPT !.next_node = "error_handler_node"]
    ELSE [AddReply(s) EXCEPT !.booking_status  = "completed",
                             !.current_drivers = <<>>,
                             !.selected_driver = 0,
                             !.active_filters  = EmptyDict,
                             !.current_page    = 1,
                             !.next_node       = "wait_for_user_input"]

\* GeneralResponseNode.__call__
GeneralResponseNode_call(s) == [AddReply(s) EXCEPT !.next_node = "wait_for_user_input"]

\* NoResultsHandlerNode.__call__ (its probes of nearby cities touch only cache keys of
\* cities the session does not search, which the model does not hold)
NoResultsHandlerNode_call(s) == [AddReply(s) EXCEPT !.next_node = "wait_for_user_input"]

\* SuggestNearbyCitiesNode.__call__ (probes as above)
SuggestNearbyCitiesNode_call(s) == [AddReply(s) EXCEPT !.next_node = "wait_for_user_input"]

\* FilterRelaxationNode.__call__; _check_total_available searches page 1 with limit 1
\* through the cache and counts 0 when the search fails or raises
FilterRelaxationNode_call(s, c, call) ==
    LET result == search_drivers_tool(c, CliSession, s.pickup_city, 1, 1, EmptyDict,
                                      TRUE, call)
        total_available == IF call # "raise" /\ result.success THEN result.total ELSE 0
    IN  NodeResult([AddReply(s) EXCEPT !.next_node = IF total_available = 0
                                                     THEN "suggest_nearby_cities_node"
                                                     ELSE "wait_for_user_input"],
                   IF call = "raise" THEN c ELSE result.cache, "none")

\* ManualAssistanceNode.__call__
ManualAssistanceNode_call(s) ==
    [AddReply(s) EXCEPT !.manual_mode = TRUE, !.next_node = "wait_for_user_input"]

\* the entries of error_history the handler can still read
Last3(h) == IF Len(h) > 3 THEN SubSeq(h, Len(h) - 2, Len(h)) ELSE h

\* _is_retryable_context: no retry once the last three recorded errors share a
\* category (conversation_state never holds one of the two names it tests)
_is_retryable_context(s) ==
    ~(/\ Len(s.error_history) >= 3
      /\ \A i \in 1..Len(s.error_history) : s.error_history[i] = s.error_history[1])

\* ErrorHandlerNode.__call__: with last_error None the categorisation raises and the
\* except answers with the fallback text
ErrorHandlerNode_call(s) ==
    LET last_error == IF s.last_error = Absent THEN "Unknown error" ELSE s.last_error
        error_category == _categorize_error(last_error)
        should_retry == /\ error_category.retry
                        /\ s.retry_count < MaxRetries
                        /\ _is_retryable_context(s)
        recorded == [AddReply(s) EXCEPT
                       !.error_history = Last3(Append(@, error_category.name)),
                       !.last_error    = None]
    IN  IF last_error = None
        THEN [AddReply(s) EXCEPT !.next_node = "wait_for_user_input", !.last_error = None]
        ELSE IF should_retry
        THEN [recorded EXCEPT !.next_node = "error_recovery_node",
                              !.retry_count = s.retry_count + 1]
        ELSE [recorded EXCEPT !.next_node = "wait_for_user_input", !.retry_count = 0]

\* RECOVERY_STRATEGIES.get(failed_node, ...): no node of the graph writes failed_node
\* and the builder's state has no such key, so failed_node is "unknown" and the
\* ladder is the default one
RecoveryStrategy ==
    [primary |-> "generic_retry", fallback |-> "skip_operation", final |-> "user_guidance"]

\* the rung for the retry count
RecoveryMethod(retry_count) ==
    IF retry_count = 1 THEN RecoveryStrategy.primary
    ELSE IF retry_count = 2 THEN RecoveryStrategy.fallback
    ELSE RecoveryStrategy.final

\* _execute_recovery: the methods that succeed, with the node they continue at
_execute_recovery(method) ==
    CASE method = "retry_with_backoff"          -> [success |-> TRUE, next_node |-> "unknown"]
      [] method = "search_without_filters"      -> [success |-> TRUE, next_node |-> "driver_search_node"]
      [] method = "fresh_search"                -> [success |-> TRUE, next_node |-> "driver_search_node"]
      [] method = "manual_booking_instructions" -> [success |-> TRUE, next_node |-> "manual_assistance_node"]
      [] method = "suggest_different_city"      -> [success |-> TRUE, next_node |-> "suggest_nearby_cities_node"]
      [] OTHER                                  -> [success |-> FALSE, next_node |-> "unknown"]

\* 2 ** n
RECURSIVE Pow2(_)
Pow2(n) == IF n = 0 THEN 1 ELSE 2 * Pow2(n - 1)

\* the seconds ErrorRecoveryNode.__call__ sleeps before it executes the method: none
\* unless retry_count > 1
backoff_time(retry_count) ==
    IF retry_count > 1 THEN Min(Pow2(retry_count - 1), 8) ELSE 0

\* ErrorRecoveryNode.__call__
ErrorRecoveryNode_call(s) ==
    LET recovery_result == _execute_recovery(RecoveryMethod(s.retry_count))
    IN  IF recovery_result.success
        THEN [AddReply(s) EXCEPT !.next_node = recovery_result.next_node,
                                 !.last_error = None]
        ELSE [AddReply(s) EXCEPT !.next_node = IF s.retry_count >= MaxRetries
                                               THEN "manual_assistance_node"
                                               ELSE "error_handler_node"]

\* StateManager._compress_state: the temporary keys are dropped when they hold None
_compress_state(s) == [s EXCEPT !.last_error = IF @ = None THEN Absent ELSE @]

\* process_message after ainvoke returned: a fallback reply when the messages hold no
\* AIMessage besides the welcome one; then builder.process_message saves the state
Finish(s) ==
    LET answered == IF s.has_ai \/ s.replies > 0 THEN s ELSE AddReply(s)
    IN  _compress_state([answered EXCEPT !.has_ai = TRUE])

\* process_message's except: a copy of the state the turn started with, whose lists
\* are the objects the nodes appended to, with last_error and the error reply
process_message_except(input, s) ==
    _compress_state([input EXCEPT
                       !.last_error    = "Recursion limit reached",
                       !.replies       = Min(s.replies + 1, ReplyCap),
                       !.error_history = IF input.error_history = <<>> THEN @
                                         ELSE s.error_history,
                       !.has_ai        = TRUE])

\* (mutant) a run that is never out of steps
OutOfSteps_never(n) == FALSE

\* the run has used up its super-steps
OutOfSteps(n) == n >= RecursionLimit

\* the stages whose failures are counted in a row
StageNodes == {"driver_search_node", "pagination_node", "filter_application_node"}

\* a failed backend call or a raised transient error that a stage hands to the
\* error handler or the recovery node
TransientFailure(n, r) ==
    /\ r.s.next_node \in {"error_handler_node", "error_recovery_node"}
    /\ \/ n = "driver_search_node" /\ r.tool = "failure"
       \/ r.tool = "raise" /\ _categorize_error(r.s.last_error).name = "api_error"

GraphHistory(h, n, r) ==
    LET stage_ran == n \in StageNodes /\ r.tool # "none"
    IN  [intent |-> IF n = "entry_node" THEN r.intent ELSE None,
         failed |-> IF n = "entry_node" THEN r.failed ELSE FALSE,
         tool   |-> r.tool,
         fetches |-> IF n = "filter_application_node" THEN r.fetches ELSE 0,
         attempt |-> IF n = "error_recovery_node" THEN r.s.retry_count ELSE 0,
         method  |-> IF n = "error_recovery_node" THEN RecoveryMethod(r.s.retry_count)
                     ELSE None,
         wait    |-> IF n = "error_recovery_node" THEN backoff_time(r.s.retry_count)
                     ELSE 0,
         succeeded |-> h.succeeded \/ (stage_ran /\ r.tool = "success"),
         stage  |-> IF ~stage_ran THEN h.stage
                    ELSE IF TransientFailure(n, r) THEN n ELSE None,
         streak |-> IF ~stage_ran THEN h.streak
                    ELSE IF ~TransientFailure(n, r) THEN 0
                    ELSE IF h.stage = n THEN Min(h.streak + 1, StreakCap) ELSE 1]

Running(n) == node = n /\ ~OutOfSteps(steps)

\* one super-step: the node's result, then route_next_node; a run that reaches END
\* returns to process_message
Step(n, r) ==
    /\ gstate' = IF route_next_node(r.s) = END THEN Finish(r.s) ELSE r.s
    /\ cache' = r.cache
    /\ node' = route_next_node(r.s)
    /\ steps' = steps + 1
    /\ ghist' = GraphHistory(ghist, n, r)
    /\ UNCHANGED <<ginput, state, last, sessionVars, workVars>>

\* process_message up to ainvoke: the HumanMessage is appended, the run starts at the
\* entry point
StartTurn ==
    /\ node = END
    /\ gstate' = [gstate EXCEPT !.replies = 0]
    /\ ginput' = [gstate EXCEPT !.replies = 0]
    /\ node' = "entry_node"
    /\ steps' = 0
    /\ ghist' = [ghist EXCEPT !.tool = "none"]
    /\ UNCHANGED <<cache, state, last, sessionVars, workVars>>

\* the entry node, for a user whose messages yield these cities, intents and entities
EntryStepFor(cities, intents, destinations, filterInputs, refs) ==
    /\ Running("entry_node")
    /\ \E answer \in intents, pickup \in cities, destination \in destinations,
          filters \in filterInputs, ref \in refs :
          LET e == _extract_entities_and_intent(answer, pickup, destination, filters)
          IN  /\ _extract_driver_reference(ref, gstate).raised =>
                    gstate.retry_count < MaxRetryCount
              /\ Step("entry_node",
                      [s      |-> EntryNode_call(gstate, e.intent, e.pickup, e.destination,
                                                 e.filters, ref),
                       cache  |-> cache,
                       tool   |-> "none",
                       intent |-> e.intent,
                       failed |-> e.failed])

\* the entry node, for a user of the populated city
EntryStep(intents, destinations, filterInputs, refs) ==
    EntryStepFor(GraphCityInputs, intents, destinations, filterInputs, refs)

\* the search node, for a backend and a tool layer with these outcomes
SearchStep(calls) ==
    /\ Running("driver_search_node")
    /\ \E call \in calls, text \in ExceptionTexts :
          Step("driver_search_node", DriverSearchNode_call(gstate, cache, call, text))

\* a user who searches, filters, pages, asks about drivers and books
entry_node == EntryStep(ExtractionAnswers, GraphDestinationInputs, GraphFilterInputs, ReferenceInputs)

\* a user of the large city who searches, pages and filters
entry_node_large_city ==
    EntryStepFor({LargeCity}, {"search", "filter", "more_results"}, {None},
                 {EmptyDict, [gender |-> "other"]}, {"none"})

\* a user who only searches and chats
entry_node_searching == EntryStep({"search", INTENT_GENERAL}, {None}, {EmptyDict}, {"none", "first"})

city_clarification_node ==
    /\ Running("city_clarification_node")
    /\ Step("city_clarification_node",
            NodeResult(CityClarificationNode_call(gstate), cache, "none"))

\* searches that the backend answers
driver_search_node == SearchStep({"ok"})

\* searches that can fail or raise
driver_search_node_failing == SearchStep(ToolCalls)

filter_application_node ==
    /\ Running("filter_application_node")
    /\ \E call \in {"ok"}, fresh \in {"ok", "http_error"}, text \in ExceptionTexts :
          Step("filter_application_node",
               FilterApplicationNode_call(gstate, cache, call, fresh, text))

filter_relaxation_node ==
    /\ Running("filter_relaxation_node")
    /\ \E call \in ToolCalls :
          Step("filter_relaxation_node", FilterRelaxationNode_call(gstate, cache, call))

driver_details_node ==
    /\ Running("driver_details_node")
    /\ \E call \in CacheToolCalls :
          Step("driver_details_node", DriverDetailsNode_call(gstate, cache, call))

booking_confirmation_node ==
    /\ Running("booking_confirmation_node")
    /\ \E needs_destination \in BOOLEAN, call \in CacheToolCalls :
          Step("booking_confirmation_node",
               BookingConfirmationNode_call(gstate, cache, needs_destination, call))

pagination_node ==
    /\ Running("pagination_node")
    /\ \E call \in {"ok", "http_error"}, text \in ExceptionTexts :
          Step("pagination_node", PaginationNode_call(gstate, cache, call, text))

general_response_node ==
    /\ Running("general_response_node")
    /\ Step("general_response_node",
            NodeResult(GeneralResponseNode_call(gstate), cache, "none"))

no_results_handler_node ==
    /\ Running("no_results_handler_node")
    /\ Step("no_results_handler_node",
            NodeResult(NoResultsHandlerNode_call(gstate), cache, "none"))

error_handler_node ==
    /\ Running("error_handler_node")
    /\ Step("error_handler_node", NodeResult(ErrorHandlerNode_call(gstate), cache, "none"))

error_recovery_node ==
    /\ Running("error_recovery_node")
    /\ Step("error_recovery_node",
            NodeResult(ErrorRecoveryNode_call(gstate), cache, "none"))

suggest_nearby_cities_node ==
    /\ Running("suggest_nearby_cities_node")
    /\ Step("suggest_nearby_cities_node",
            NodeResult(SuggestNearbyCitiesNode_call(gstate), cache, "none"))

manual_assistance_node ==
    /\ Running("manual_assistance_node")
    /\ Step("manual_assistance_node",
            NodeResult(ManualAssistanceNode_call(gstate), cache, "none"))

booking_complete_node ==
    /\ Running("booking_complete_node")
    /\ Step("booking_complete_node",
            NodeResult(BookingCompleteNode_call(gstate), cache, "none"))

\* ainvoke raises GraphRecursionError when the super-steps are used up before END;
\* process_message's except returns the error state, which the builder saves
GraphRecursionError ==
    /\ node # END
    /\ OutOfSteps(steps)
    /\ gstate' = process_message_except(ginput, gstate)
    /\ node' = END
    /\ ghist' = [ghist EXCEPT !.tool = "none"]
    /\ UNCHANGED <<ginput, steps, cache, state, last, sessionVars, workVars>>

ExecuteIdle == state = 0 /\ last = 0

GraphInit ==
    /\ gstate = GraphInitialState
    /\ ginput = GraphInitialState
    /\ node = END
    /\ steps = 0
    /\ ghist = [intent |-> None, failed |-> FALSE, tool |-> "none", fetches |-> 0,
                attempt |-> 0, method |-> None, wait |-> 0, succeeded |-> FALSE,
                stage |-> None, streak |-> 0]
    /\ cache = EmptyCache
    /\ ExecuteIdle
    /\ SessionIdle
    /\ WorkIdle

\* SpecGraph: the runs of a user who does everything, over a backend whose failures
\* stay inside the nodes (no run reaches the error nodes). wait_for_user_input_node is
\* never run: route_next_node turns its name into END
GraphNext ==
    \/ StartTurn
    \/ entry_node
    \/ city_clarification_node
    \/ driver_search_node
    \/ filter_application_node
    \/ filter_relaxation_node
    \/ driver_details_node
    \/ booking_confirmation_node
    \/ pagination_node
    \/ general_response_node
    \/ no_results_handler_node
    \/ suggest_nearby_cities_node
    \/ booking_complete_node
    \/ GraphRecursionError

SpecGraph == GraphInit /\ [][GraphNext]_vars

\* SpecRecovery: the runs of a user who only searches, over a backend that can fail
\* and a tool layer that can raise: the error handler, the recovery node and manual
\* assistance
RecoveryNext ==
    \/ StartTurn
    \/ entry_node_searching
    \/ city_clarification_node
    \/ driver_search_node_failing
    \/ general_response_node
    \/ error_handler_node
    \/ error_recovery_node
    \/ manual_assistance_node
    \/ GraphRecursionError

SpecRecovery == GraphInit /\ [][RecoveryNext]_vars

\* SpecTopUp: the runs of a user who searches the large city, pages through it and
\* filters the page shown
TopUpNext ==
    \/ StartTurn
    \/ entry_node_large_city
    \/ driver_search_node
    \/ pagination_node
    \/ filter_application_node
    \/ filter_relaxation_node
    \/ suggest_nearby_cities_node

SpecTopUp == GraphInit /\ [][TopUpNext]_vars

(***************************************************************************)
(* Sessions, their requests and the shared stores (SpecSession).  The      *)
(* builder serves every conversation session with one DriversAPIClient;    *)
(* the state manager and the cache service both default to Redis database  *)
(* 0 of localhost:6379.  Sessions stay within their TTL.                   *)
(***************************************************************************)
\* the session ids create_session hands out
Sessions == {"a", "b"}

\* the requests the server works on at a time
MaxRequests == 2

Requests == 1..MaxRequests

\* the messages a request carries: none starts with "/" (no special command)
Messages == {"search", "chat"}

\* f"cabbot:state:{session_id}"
_get_state_key(session_id) == <<"cabbot:state", session_id>>

\* a key's value: <<>> when the key is missing, else the one saved state
NoState == <<>>

\* StateManager.get_state: the saved state, or None (here NoState)
get_state(st, session_id) == st[_get_state_key(session_id)]

\* StateManager.save_state: the compressed state replaces the key's value
save_state(st, session_id, s) ==
    [st EXCEPT ![_get_state_key(session_id)] = <<_compress_state(s)>>]

\* StateManager.delete_state
delete_state(st, session_id) == [st EXCEPT ![_get_state_key(session_id)] = NoState]

\* RedisService.clear_all: flushdb empties the database, session states included
clear_all(st) == [k \in DOMAIN st |-> NoState]

\* DriversAPIClient.clear_cache: the keys matching "*_{city}_*" are deleted, or with
\* no city the whole database
clear_cache(c, city) ==
    LET Other(e) == e.key[2] # city
    IN  IF city = None THEN EmptyCache ELSE SelectSeq(c, Other)

\* CabBookingGraph.process_message for a search of the populated city or a chat
\* message: the entry node, then the one node it routes to, then the fallback reply
graph_process_message(s, c, message) ==
    LET start == [s EXCEPT !.replies = 0]
        e     == IF message = "search"
                 THEN EntryNode_call(start, "search", "jaipur", None, EmptyDict, "none")
                 ELSE EntryNode_call(start, INTENT_GENERAL, None, None, EmptyDict, "none")
        r     == DriverSearchNode_call(e, c, "ok", "connection timeout")
    IN  IF route_next_node(e) = "driver_search_node"
        THEN [s |-> Finish(r.s), cache |-> r.cache]
        ELSE IF route_next_node(e) = "general_response_node"
        THEN [s |-> Finish(GeneralResponseNode_call(e)), cache |-> c]
        ELSE [s |-> Finish(e), cache |-> c]

\* a request slot that holds no request; a request's state is held like a key's value
IdleRequest == [pc |-> "idle", session |-> None, state |-> NoState]

\* history: the session each cache entry was stored for, as <<key, session>> pairs
OwnersOf(owner, keys) == {p[2] : p \in {q \in owner : q[1] \in keys}}

Stored(owner, keys, by) == {q \in owner : q[1] \notin keys} \cup {<<k, by>> : k \in keys}

\* builder.create_session: the initial state is saved under a fresh id
create_session(sid) ==
    /\ get_state(store, sid) = NoState
    /\ store' = save_state(store, sid, GraphInitialState)
    /\ glog' = [glog EXCEPT !.op = "save_state", !.by = sid, !.touched = {}]
    /\ UNCHANGED <<req, cache, state, last, graphVars, workVars>>

\* builder.process_message up to its first await of the graph: get_state; a missing
\* session answers "Session not found or expired"
process_message_get(r, sid) ==
    /\ req[r].pc = "idle"
    /\ req' = IF get_state(store, sid) = NoState THEN req
              ELSE [req EXCEPT ![r] = [pc |-> "got", session |-> sid,
                                       state |-> get_state(store, sid)]]
    /\ glog' = [glog EXCEPT !.op = "get_state", !.by = sid,
                            !.touched = IF get_state(store, sid) = NoState THEN {}
                                        ELSE {sid}]
    /\ UNCHANGED <<store, cache, state, last, graphVars, workVars>>

\* builder.process_message: await self.graph.process_message(message, state, ...)
process_message_graph(r, message) ==
    LET sid  == req[r].session
        out  == graph_process_message(req[r].state[1], cache, message)
        read == CacheKeys(cache) \cap CacheKeys(out.cache)
        new  == CacheKeys(out.cache) \ CacheKeys(cache)
    IN  /\ req[r].pc = "got"
        /\ req' = [req EXCEPT ![r].pc = "processed", ![r].state = <<out.s>>]
        /\ cache' = out.cache
        /\ glog' = [op      |-> "get_drivers",
                    by      |-> sid,
                    touched |-> IF message = "search" /\ new = {}
                                THEN OwnersOf(glog.owner, read) ELSE {},
                    owner   |-> Stored(glog.owner, new, sid)]
        /\ UNCHANGED <<store, state, last, graphVars, workVars>>

\* builder.process_message: save_state(session_id, updated_state), then the response
process_message_save(r) ==
    /\ req[r].pc = "processed"
    /\ store' = save_state(store, req[r].session, req[r].state[1])
    /\ req' = [req EXCEPT ![r] = IdleRequest]
    /\ glog' = [glog EXCEPT !.op = "save_state", !.by = req[r].session,
                            !.touched = IF get_state(store, req[r].session) = NoState
                                        THEN {} ELSE {req[r].session}]
    /\ UNCHANGED <<cache, state, last, graphVars, workVars>>

\* builder.end_session: delete_state of the session's key
end_session(sid) ==
    /\ get_state(store, sid) # NoState
    /\ store' = delete_state(store, sid)
    /\ glog' = [glog EXCEPT !.op = "delete_state", !.by = sid, !.touched = {sid}]
    /\ UNCHANGED <<req, cache, state, last, graphVars, workVars>>

\* DriversAPIClient.clear_cache called for a session, with a city or without
api_clear_cache(sid, city) ==
    LET gone == CacheKeys(cache) \ CacheKeys(clear_cache(cache, city))
        lost == IF city = None
                THEN {s \in Sessions : get_state(store, s) # NoState} ELSE {}
    IN  /\ gone # {} \/ lost # {}
        /\ cache' = clear_cache(cache, city)
        /\ store' = IF city = None THEN clear_all(store) ELSE store
        /\ glog' = [op      |-> "clear_cache",
                    by      |-> sid,
                    touched |-> OwnersOf(glog.owner, gone) \cup lost,
                    owner   |-> {q \in glog.owner : q[1] \notin gone}]
        /\ UNCHANGED <<req, state, last, graphVars, workVars>>

SessionInit ==
    /\ store = [k \in {_get_state_key(s) : s \in Sessions} |-> NoState]
    /\ req = [r \in Requests |-> IdleRequest]
    /\ glog = [op |-> "none", by |-> None, touched |-> {}, owner |-> {}]
    /\ cache = EmptyCache
    /\ ExecuteIdle
    /\ GraphIdle
    /\ WorkIdle

SessionNext ==
    \/ \E sid \in Sessions : create_session(sid)
    \/ \E r \in Requests, sid \in Sessions : process_message_get(r, sid)
    \/ \E r \in Requests, message \in Messages : process_message_graph(r, message)
    \/ \E r \in Requests : process_message_save(r)
    \/ \E sid \in Sessions : end_session(sid)
    \/ \E sid \in Sessions, city \in Cities \cup {None} : api_clear_cache(sid, city)

SpecSession == SessionInit /\ [][SessionNext]_vars

(***************************************************************************)
(* The tool-calling agent of src/working/langgraph-bot (SpecWorking): the  *)
(* LLM of agent_node picks a tool and its arguments, tool_executor_node    *)
(* runs it and updates the conversation state.  The stack has no cache:    *)
(* the drivers it fetched live in the state.                               *)
(***************************************************************************)
\* the largest fetch_count a model run reaches (fetch_count counts without limit)
MaxFetchCount == 2

\* config.py
DRIVERS_PER_FETCH == 20
DRIVERS_PER_DISPLAY == 5
MAX_FETCH_DEPTH == 5

\* the driver ids the LLM may ask about: listed ones and one no directory lists
DetailIds == {1, NumDrivers, NumDrivers + 50}

WorkFilterKeys == {"gender", "vehicleTypes"}

\* None: a key the LLM passes with a null value
WorkFilterValues(k) == IF k = "gender" THEN {"male", "female", None} ELSE {"suv"}

\* the filters argument of a get_drivers_for_city call
WorkFilterDicts ==
    {f \in UNION {[K -> {"male", "female", "suv", None}] : K \in SUBSET WorkFilterKeys} :
        \A k \in DOMAIN f : f[k] \in WorkFilterValues(k)}

\* requests.get(params=...): a parameter whose value is None is not sent
QueryParams(filters) ==
    [k \in {j \in DOMAIN filters : filters[j] # None} |-> filters[k]]

\* api_client.get_drivers: the "data" of the answer; a failed request, a status other
\* than 200 or success false give the empty list
api_client_get_drivers(city, page, lim, filters, net) ==
    IF net = "ok" THEN BackendPage(city, page, lim, QueryParams(filters)).drivers ELSE <<>>

\* the backend's answer to city "", limit 1 and the filter {"id": driver_id}: the
\* directory's record with that id, when there is one
api_client_get_driver_by_id(driver_id, net) ==
    IF net = "ok" /\ driver_id \in DriverIds THEN <<driver_id>> ELSE <<>>

\* process_driver_data renames the fields of a record and keeps its id
process_driver_data(driver_data) == driver_data

\* get_drivers_for_city (tool)
get_drivers_for_city(city, page, filters, net) ==
    LET drivers_data == api_client_get_drivers(city, page, DRIVERS_PER_FETCH, filters, net)
    IN  IF drivers_data = <<>>
        THEN [drivers |-> <<>>, page |-> page, has_more |-> FALSE]
        ELSE [drivers  |-> [i \in 1..Len(drivers_data) |-> process_driver_data(drivers_data[i])],
              page     |-> page,
              has_more |-> Len(drivers_data) = DRIVERS_PER_FETCH]

\* get_driver_details (tool): the provided list first, then the API; 0 is None
get_driver_details(driver_id, drivers, net) ==
    IF driver_id \in Range(drivers) THEN driver_id
    ELSE LET drivers_data == api_client_get_driver_by_id(driver_id, net)
         IN  IF drivers_data = <<>> THEN 0 ELSE process_driver_data(drivers_data[1])

\* show_more_drivers (tool)
show_more_drivers(current_index, total_drivers) ==
    LET next_index == current_index + DRIVERS_PER_DISPLAY
    IN  [next_index          |-> next_index,
         has_more_in_current |-> next_index < total_drivers,
         should_fetch_new    |-> ~(next_index < total_drivers)]

\* get_user_state: the state of a new conversation (absent keys hold their .get default)
WorkInitialState ==
    [applied_filters       |-> EmptyDict,
     all_fetched_drivers   |-> <<>>,
     filtered_drivers      |-> <<>>,
     current_display_index |-> 0,
     fetch_count           |-> 0,
     current_page          |-> 1,
     pickup_location       |-> None]

WorkHistory(op, before, new_filters, driver_id, output) ==
    [op |-> op, before |-> before, new_filters |-> new_filters,
     driver_id |-> driver_id, output |-> output, keys_to_remove |-> {}]

\* tool_executor_node, tool get_drivers_for_city: the call's filters are merged into
\* applied_filters, the merged filters go to the backend
tool_executor_get_drivers_for_city(city, page, new_filters, net) ==
    LET current_filters == DictMerge(wstate.applied_filters, new_filters)
        output      == get_drivers_for_city(city, page, current_filters, net)
        new_drivers == output.drivers
        fetched     == IF page = 1 THEN new_drivers
                       ELSE wstate.all_fetched_drivers \o new_drivers
    IN  /\ page = 1 \/ wstate.fetch_count < MaxFetchCount
        /\ wstate' = [wstate EXCEPT
                        !.applied_filters       = current_filters,
                        !.pickup_location       = city,
                        !.all_fetched_drivers   = fetched,
                        !.current_display_index = IF page = 1 THEN 0 ELSE @,
                        !.fetch_count           = IF page = 1 THEN 1 ELSE @ + 1,
                        !.filtered_drivers      = fetched,
                        !.current_page          = output.page]
        /\ wlast' = WorkHistory("get_drivers_for_city", wstate, new_filters, 0, 0)
        /\ UNCHANGED <<state, cache, last, graphVars, sessionVars>>

\* tool_executor_node, tool get_driver_details: drivers is all_fetched_drivers
tool_executor_get_driver_details(driver_id, net) ==
    LET output == get_driver_details(driver_id, wstate.all_fetched_drivers, net)
    IN  /\ wlast' = WorkHistory("get_driver_details", wstate, EmptyDict, driver_id, output)
        /\ UNCHANGED wstate
        /\ UNCHANGED <<state, cache, last, graphVars, sessionVars>>

\* tool_executor_node, tool show_more_drivers
tool_executor_show_more_drivers(current_index, total_drivers) ==
    LET info == show_more_drivers(current_index, total_drivers)
    IN  /\ wstate' = [wstate EXCEPT !.current_display_index = info.next_index]
        /\ wlast' = WorkHistory("show_more_drivers", wstate, EmptyDict, 0, 0)
        /\ UNCHANGED <<state, cache, last, graphVars, sessionVars>>

\* tool_executor_node, tool remove_filters_from_search
tool_executor_remove_filters_from_search(keys_to_remove) ==
    LET current_filters == wstate.applied_filters
        kept == [k \in (DOMAIN current_filters) \ keys_to_remove |-> current_filters[k]]
    IN  /\ wstate' = [wstate EXCEPT
                        !.applied_filters       = IF "all" \in keys_to_remove
                                                  THEN EmptyDict ELSE kept,
                        !.all_fetched_drivers   = <<>>,
                        !.filtered_drivers      = <<>>,
                        !.current_display_index = 0,
                        !.fetch_count           = 0]
        /\ wlast' = [WorkHistory("remove_filters_from_search", wstate, EmptyDict, 0, 0)
                        EXCEPT !.keys_to_remove = keys_to_remove]
        /\ UNCHANGED <<state, cache, last, graphVars, sessionVars>>

WorkInit ==
    /\ wstate = WorkInitialState
    /\ wlast = WorkHistory("none", WorkInitialState, EmptyDict, 0, 0)
    /\ cache = EmptyCache
    /\ ExecuteIdle
    /\ GraphIdle
    /\ SessionIdle

WorkNext ==
    \/ \E city \in Cities, page \in 1..2, new_filters \in WorkFilterDicts,
          net \in {"ok", "http_error"} :
           tool_executor_get_drivers_for_city(city, page, new_filters, net)
    \/ \E driver_id \in DetailIds, net \in {"ok", "http_error"} :
           tool_executor_get_driver_details(driver_id, net)
    \/ \E current_index \in {0, DRIVERS_PER_DISPLAY} :
           tool_executor_show_more_drivers(current_index, Len(wstate.filtered_drivers))
    \/ \E keys_to_remove \in {{"all"}, {"gender"}} :
           tool_executor_remove_filters_from_search(keys_to_remove)

SpecWorking == WorkInit /\ [][WorkNext]_vars

(***************************************************************************)
(* The slot collector by itself (SpecCollector): TripInfoCollectionNode    *)
(* run turn after turn on the conversation state, whatever the state is    *)
(* (which turns reach the handler is the missing graph's choice), with     *)
(* searches whose backend call fails in between.                           *)
(***************************************************************************)
\* trip_type as TripInfo describes it (None: not extracted)
CollectorTripTypes == {None, "one-way", "round-trip"}

\* trip_duration in days (0: not extracted)
CollectorDurations == {0, 3}

CollectorHistory(op, before, ok, pickup, drop, ttype, duration) ==
    [op |-> op, before |-> before, ok |-> ok, pickup |-> pickup, drop |-> drop,
     trip_type |-> ttype, trip_duration |-> duration]

\* a turn that runs TripInfoCollectionNode.execute
CollectorTurn ==
    /\ \E ok \in BOOLEAN, pickup \in PickupInputs, drop \in DropInputs,
          ttype \in CollectorTripTypes, duration \in CollectorDurations :
          LET s == TurnStart(state)
          IN  /\ state' = Merge(s, TripInfoCollectionNode_execute(s, ok, pickup, drop,
                                                                  ttype, duration))
              /\ last' = CollectorHistory("trip_info", s, ok, pickup, drop, ttype, duration)
    /\ UNCHANGED <<cache, graphVars, sessionVars, workVars>>

\* a search turn whose backend call fails
FailedSearchTurn ==
    /\ Routed("search")
    /\ \E net \in {"http_error", "raise"} :
          LET s   == TurnStart(state)
              out == SearchDriversNode_execute(s, cache, None, net)
          IN  /\ state' = TurnEnd(s, out)
              /\ last' = CollectorHistory("search", s, FALSE, None, None, None, 0)
    /\ UNCHANGED <<cache, graphVars, sessionVars, workVars>>

CollectorInit ==
    /\ state = InitialState
    /\ cache = EmptyCache
    /\ last = CollectorHistory("start", InitialState, FALSE, None, None, None, 0)
    /\ GraphIdle
    /\ SessionIdle
    /\ WorkIdle

CollectorNext ==
    \/ CollectorTurn
    \/ FailedSearchTurn

SpecCollector == CollectorInit /\ [][CollectorNext]_vars

(***************************************************************************)
(* Filter turns by themselves (SpecFilters): the trip details are          *)
(* collected, then FilterDriversNode runs turn after turn with filters     *)
(* whose values differ from turn to turn.                                  *)
(***************************************************************************)
\* the values the extraction may yield for a filter key
MergeFilterValues(k) == IF k = "gender" THEN {"male", "female"} ELSE {"suv"}

\* the filter_dict of a turn: any subset of the keys, each with one of its values
MergeFilterInputs ==
    {f \in UNION {[K -> {"male", "female", "suv"}] : K \in SUBSET FilterKeys} :
        \A k \in DOMAIN f : f[k] \in MergeFilterValues(k)}

\* the history of a filter turn: its filter_dict and clear flag, the active filters
\* it found, whether it wrote active_filters, and the same of the turn before
MergeHistory(h, s, out, filter_dict, clear) ==
    LET after_filter == h.op = "filter"
    IN  [op               |-> "filter",
         applied          |-> "active_filters" \in DOMAIN out.upd,
         clear            |-> clear,
         filter_dict      |-> filter_dict,
         before           |-> s.active_filters,
         prev_applied     |-> IF after_filter THEN h.applied ELSE FALSE,
         prev_clear       |-> IF after_filter THEN h.clear ELSE FALSE,
         prev_filter_dict |-> IF after_filter THEN h.filter_dict ELSE EmptyDict,
         prev_before      |-> IF after_filter THEN h.before ELSE EmptyDict]

\* a turn routed to the filter handler, with filters of several values
MergeFilterTurn ==
    /\ Routed("filter")
    /\ state.current_page < MaxPage
    /\ \E filter_dict \in MergeFilterInputs, clear_filters \in BOOLEAN,
          net \in {"ok", "http_error"} :
          LET s   == TurnStart(state)
              out == FilterDriversNode_execute(s, cache, TRUE, filter_dict,
                                               clear_filters, net)
          IN  /\ state' = TurnEnd(s, out)
              /\ cache' = out.cache
              /\ last' = MergeHistory(last, s, out, filter_dict, clear_filters)
    /\ UNCHANGED <<graphVars, sessionVars, workVars>>

FiltersNext ==
    \/ TripInfoTurn
    \/ MergeFilterTurn

SpecFilters == Init /\ [][FiltersNext]_vars

(***************************************************************************)
(* Booking turns by themselves (SpecBooking): a user who gives the trip,   *)
(* searches, pages, asks about a driver and books by name or by position.  *)
(***************************************************************************)
\* the position a booking message names ("the first one": 1; 0: none)
Positions == {0, 1, 2}

\* a name no driver of the directory has
UnknownName == 30

\* the driver_name the extraction may yield for a booking message: the names users
\* type, the name of the first driver of the second page and the unknown name
BookingNames == UserNames \cup {limit + 1, UnknownName}

\* the driver BookDriverNode.execute calls the confirmation tool for (NoDriver: it
\* returns before the call)
BookingTarget(s, identified, name) ==
    IF ~s.full_trip_details THEN NoDriver
    ELSE IF s.selected_driver # NoDriver THEN s.selected_driver
    ELSE IF s.all_drivers = <<>> \/ ~identified \/ name = 0 THEN NoDriver
    ELSE _find_driver_by_name(s.all_drivers, name)

\* the names the "couldn't find that specific driver" reply lists: all_drivers[:5]
AvailableNames(s, identified, name) ==
    IF /\ s.full_trip_details
       /\ s.selected_driver = NoDriver
       /\ s.all_drivers # <<>>
       /\ identified
       /\ BookingTarget(s, identified, name) = NoDriver
    THEN SubSeq(s.all_drivers, 1, Min(5, Len(s.all_drivers)))
    ELSE <<>>

\* the history of a booking turn: what the user and the extraction said, the state the
\* handler read, the driver the confirmation tool was called for and the names listed
BookHistory(s, out, identified, name, position) ==
    [op |-> "book", page |-> out.page, fetched |-> out.fetched, raised |-> out.raised,
     clear |-> FALSE, confirmed |-> "booking_status" \in DOMAIN out.upd,
     identified |-> identified, name |-> name, position |-> position,
     before |-> s,
     target |-> BookingTarget(s, identified, name),
     listed |-> AvailableNames(s, identified, name)]

\* a turn routed to the booking handler, for a message naming a driver or a position
BookingTurn ==
    /\ Routed("book")
    /\ \E identified \in BOOLEAN, name \in BookingNames, position \in Positions :
          LET s   == TurnStart(state)
              out == BookDriverNode_execute(s, cache, identified, name)
          IN  /\ state' = TurnEnd(s, out)
              /\ last' = BookHistory(s, out, identified, name, position)
    /\ UNCHANGED <<cache, graphVars, sessionVars, workVars>>

BookingNext ==
    \/ TripInfoTurn
    \/ SearchTurn
    \/ MoreTurn
    \/ InfoTurn
    \/ BookingTurn

SpecBooking == Init /\ [][BookingNext]_vars

(***************************************************************************)
(* Turns with their reply (SpecReply): the handler the router picks, then  *)
(* the composer, ResponseGeneratorNode.execute, on the merged state.       *)
(***************************************************************************)
\* ResponseGeneratorNode.execute: the kind of reply it writes and the fields it
\* returns; driver_summary is the summary a detail handler left (None: none)
ResponseGeneratorNode_execute(s, driver_summary) ==
    IF s.last_error # None
    THEN [reply |-> "error", upd |-> EmptyDict]
    ELSE IF s.booking_status = "confirmed" /\ s.booking_details # 0
    THEN [reply |-> "booking_confirmed", upd |-> [booking_status |-> "none"]]
    ELSE IF s.selected_driver # NoDriver /\ driver_summary # None
    THEN [reply |-> "driver_info", upd |-> EmptyDict]
    ELSE IF s.current_drivers # <<>>
    THEN [reply |-> "driver_list", upd |-> [is_filtered |-> FALSE]]
    ELSE IF s.is_filtered /\ s.active_filters # EmptyDict
    THEN [reply |-> "no_drivers_for_filters", upd |-> EmptyDict]
    ELSE IF s.pickupLocation = None /\ s.dropLocation = None /\ s.trip_type = None
    THEN [reply |-> "ask_trip_details", upd |-> EmptyDict]
    ELSE IF s.pickupLocation # None /\ s.dropLocation = None
    THEN [reply |-> "ask_destination", upd |-> EmptyDict]
    ELSE IF s.pickupLocation = None /\ s.dropLocation # None
    THEN [reply |-> "ask_pickup", upd |-> EmptyDict]
    ELSE IF s.search_city = None
    THEN [reply |-> "ask_city", upd |-> EmptyDict]
    ELSE [reply |-> "how_can_i_help", upd |-> EmptyDict]

\* the replies that tell the user no drivers were found
NoDriversReplies == {"no_drivers_for_filters"}

\* the state after the handler's result is merged and the composer has run on it
Composed(s, out) ==
    LET merged == TurnEnd(s, out)
    IN  IF out.raised THEN merged
        ELSE Merge(merged, ResponseGeneratorNode_execute(merged, None).upd)

\* the call to action that ends a driver listing
_call_to_action(s) ==
    IF s.has_more_results THEN "show_more"
    ELSE IF ~s.is_filtered THEN "apply_filters"
    ELSE "modify_filters"

\* the history of a turn with its reply ("none": the graph raised), the state the
\* composer read and the call to action of a listing
ReplyHistory(op, s, out) ==
    LET reply == IF out.raised THEN "none"
                 ELSE ResponseGeneratorNode_execute(TurnEnd(s, out), None).reply
    IN  [op |-> op, page |-> out.page, fetched |-> out.fetched, raised |-> out.raised,
         clear |-> FALSE, confirmed |-> FALSE,
         reply |-> reply,
         before |-> TurnEnd(s, out),
         hint |-> IF reply = "driver_list" THEN _call_to_action(TurnEnd(s, out))
                  ELSE "none"]

\* a search turn and its reply
SearchReplyTurn ==
    /\ Routed("search")
    /\ \E city \in PickupInputs, net \in NetOutcomes :
          LET s   == TurnStart(state)
              out == SearchDriversNode_execute(s, cache, city, net)
          IN  /\ state' = Composed(s, out)
              /\ cache' = out.cache
              /\ last' = ReplyHistory("search", s, out)
    /\ UNCHANGED <<graphVars, sessionVars, workVars>>

\* a filter turn and its reply
FilterReplyTurn ==
    /\ Routed("filter")
    /\ state.current_page < MaxPage
    /\ \E filter_dict \in FilterInputs, net \in NetOutcomes :
          LET s   == TurnStart(state)
              out == FilterDriversNode_execute(s, cache, TRUE, filter_dict, FALSE, net)
          IN  /\ state' = Composed(s, out)
              /\ cache' = out.cache
              /\ last' = ReplyHistory("filter", s, out)
    /\ UNCHANGED <<graphVars, sessionVars, workVars>>

\* a turn routed to the response stage: the composer alone runs
ResponseReplyTurn ==
    /\ Routed("response")
    /\ LET s   == TurnStart(state)
           out == Outcome(EmptyDict, cache, 0, FALSE)
       IN  /\ state' = Composed(s, out)
           /\ last' = ReplyHistory("response", s, out)
    /\ UNCHANGED <<cache, graphVars, sessionVars, workVars>>

\* a trip-details turn and its reply
TripInfoReplyTurn ==
    /\ Routed("trip_info_collection")
    /\ \E ok \in BOOLEAN, pickup \in PickupInputs, drop \in DropInputs :
          LET s   == TurnStart(state)
              out == Outcome(TripInfoCollectionNode_execute(s, ok, pickup, drop, None, 0),
                             cache, 0, FALSE)
          IN  /\ state' = Composed(s, out)
              /\ last' = ReplyHistory("trip_info", s, out)
    /\ UNCHANGED <<cache, graphVars, sessionVars, workVars>>

ReplyNext ==
    \/ TripInfoReplyTurn
    \/ SearchReplyTurn
    \/ FilterReplyTurn
    \/ ResponseReplyTurn

SpecReply == Init /\ [][ReplyNext]_vars

(***************************************************************************)
(* Session expiry (SpecExpiry): the state manager's keys with the time     *)
(* they have left, sessions used one request at a time, and a clock.       *)
(***************************************************************************)
\* StateManager: session_ttl, in seconds
session_ttl == 1800

\* the seconds that pass in one step of the clock
ClockStep == 600

\* a key's value with the time it has left: setex(key, session_ttl, state)
Fresh(s) == <<[state |-> _compress_state(s), left |-> session_ttl]>>

\* redis expire(key, session_ttl) on a key that exists
Renewed(entry) == IF entry = NoState THEN NoState
                  ELSE <<[entry[1] EXCEPT !.left = session_ttl]>>

\* the key after ClockStep more seconds: gone once its time is used up
Aged(entry) == IF entry = NoState \/ entry[1].left <= ClockStep THEN NoState
               ELSE <<[entry[1] EXCEPT !.left = @ - ClockStep]>>

\* history: the seconds since a session's last turn, counted up to session_ttl
Elapsed(t) == Min(t + ClockStep, session_ttl)

\* builder.create_session: the initial state is saved under a fresh id
expiry_create_session(sid) ==
    /\ sid \notin glog.created
    /\ store' = [store EXCEPT ![_get_state_key(sid)] = Fresh(GraphInitialState)]
    /\ glog' = [glog EXCEPT !.op = "create_session", !.by = sid, !.reply = "welcome",
                            !.created = @ \cup {sid}, !.since_turn[sid] = 0]
    /\ UNCHANGED <<req, cache, state, last, graphVars, workVars>>

\* builder.process_message, one request at a time: get_state (which renews the key),
\* the graph, save_state; a missing key answers "Session not found or expired"
expiry_process_message(sid, message) ==
    LET k     == _get_state_key(sid)
        found == store[k] # NoState
        out   == graph_process_message(store[k][1].state, cache, message)
    IN  /\ sid \in glog.created
        /\ store' = IF found THEN [store EXCEPT ![k] = Fresh(out.s)] ELSE store
        /\ cache' = IF found THEN out.cache ELSE cache
        /\ glog' = [glog EXCEPT !.op = "process_message", !.by = sid,
                                !.reply = IF found THEN "message"
                                          ELSE "Session not found or expired",
                                !.since_turn[sid] = IF found THEN 0 ELSE @]
        /\ UNCHANGED <<req, state, last, graphVars, workVars>>

\* builder.get_session_state: get_state, which renews the key
get_session_state(sid) ==
    /\ sid \in glog.created
    /\ store' = [store EXCEPT ![_get_state_key(sid)] = Renewed(@)]
    /\ glog' = [glog EXCEPT !.op = "get_session_state", !.by = sid, !.reply = "state"]
    /\ UNCHANGED <<req, cache, state, last, graphVars, workVars>>

\* builder.list_active_sessions: get_session_info, and with it get_state, for every
\* key that exists
list_active_sessions ==
    /\ glog.created # {}
    /\ store' = [k \in DOMAIN store |-> Renewed(store[k])]
    /\ glog' = [glog EXCEPT !.op = "list_active_sessions", !.by = None, !.reply = "list"]
    /\ UNCHANGED <<req, cache, state, last, graphVars, workVars>>

\* time passes
ClockTick ==
    /\ glog.created # {}
    /\ store' = [k \in DOMAIN store |-> Aged(store[k])]
    /\ glog' = [glog EXCEPT !.op = "tick", !.by = None, !.reply = "none",
                            !.since_turn = [s \in Sessions |-> Elapsed(@[s])]]
    /\ UNCHANGED <<req, cache, state, last, graphVars, workVars>>

ExpiryInit ==
    /\ store = [k \in {_get_state_key(s) : s \in Sessions} |-> NoState]
    /\ req = [r \in Requests |-> IdleRequest]
    /\ glog = [op |-> "none", by |-> None, reply |-> "none", created |-> {},
               since_turn |-> [s \in Sessions |-> 0]]
    /\ cache = EmptyCache
    /\ ExecuteIdle
    /\ GraphIdle
    /\ WorkIdle

ExpiryNext ==
    \/ \E sid \in Sessions : expiry_create_session(sid)
    \/ \E sid \in Sessions, message \in Messages : expiry_process_message(sid, message)
    \/ \E sid \in Sessions : get_session_state(sid)
    \/ list_active_sessions
    \/ ClockTick

SpecExpiry == ExpiryInit /\ [][ExpiryNext]_vars

(***************************************************************************)
(* Properties of the execute handlers (Spec).                              *)
(***************************************************************************)
\* the page the cache holds for the state's city under a page number
CachedPage(c, s, page) ==
    _get_from_cache(c, _generate_cache_key(CliSession, s.search_city, page)).data.drivers

\* C7: in every state reached after a search, a filter or a 'more', every driver of
\* current_drivers is also in all_drivers.
C7_CurrentSubsetAll ==
    last.op \in {"search", "filter", "more"} =>
        Ids(state.current_drivers) \subseteq Ids(state.all_drivers)

\* C8: a 'more' turn requests page current_page + 1; when the page comes back,
\* current_page advances by exactly one and current_drivers is exactly that page (the
\* page now cached under the new page number); when the fetch fails or is empty,
\* current_page stays.
C8_MoreFetchesNextPage ==
    [][last'.op = "more" =>
        /\ last'.page = state.current_page + 1
        /\ last'.fetched =>
             /\ state'.current_page = state.current_page + 1
             /\ state'.current_drivers =
                   AsEntries(CachedPage(cache', state, state.current_page + 1))
             /\ state'.current_drivers # <<>>
        /\ ~last'.fetched => state'.current_page = state.current_page]_vars

\* a 'more' turn brought a next page while earlier pages were held
C8_Witness ==
    /\ last.op = "more" /\ last.fetched
    /\ state.current_page = last.page
    /\ state.current_page > 1

C10_FreshSearchResets ==
    [][(last'.fetched /\ (last'.op = "search" \/ (last'.op = "filter" /\ last'.clear))) =>
        /\ state'.current_page = 1
        /\ Ids(state'.all_drivers) = Ids(state'.current_drivers)]_vars

\* the booking handler of the execute stack, reached through the router, returns a
\* confirmed booking only with full trip details and a target that is in all_drivers
ExecuteBookingOnlyKnownDriver ==
    [][(last'.op = "book" /\ last'.confirmed) =>
        /\ state'.full_trip_details
        /\ state'.selected_driver.driver_id \in Ids(state'.all_drivers)]_vars

(***************************************************************************)
(* Properties of the graph nodes (SpecGraph, SpecRecovery).                *)
(***************************************************************************)
\* C1: the booking status becomes confirmed only in a state that holds the full trip
\* details (the graph state's trip slots: pickup and destination) and whose selected
\* driver, the one being confirmed, is in the driver list the state holds at that
\* moment.
C1_ConfirmedOnlyKnownDriver ==
    [][(node = "booking_confirmation_node" /\ gstate'.booking_status = "confirmed") =>
        /\ gstate.pickup_city # None
        /\ gstate.destination_city # None
        /\ gstate.selected_driver \in Range(gstate.current_drivers)]_vars

\* C2: the booking record and the confirmed status are written only by a confirmation
\* step whose backend call returned success; a call that fails or raises leaves the
\* booking unconfirmed.
C2_ConfirmedOnlyOnSuccess ==
    [][(node = "booking_confirmation_node" /\ ghist'.tool # "success") =>
        /\ gstate'.booking_status # "confirmed"
        /\ gstate'.booking_details = gstate.booking_details]_vars

\* C3: when a turn ends after a stage has failed three times in a row with a
\* transient backend error, the error machinery invoked after the third failure has
\* put the session into manual-assistance mode (no fourth retry can follow).
C3_ThreeFailuresManual ==
    (node = END /\ ghist.stage # None /\ ghist.streak >= 3) => gstate.manual_mode

\* the fields of a state that the turn's error reply does not touch
TurnInput(s) == [s EXCEPT !.last_error = Absent, !.replies = 0, !.has_ai = TRUE,
                          !.error_history = <<>>]

\* C4: a turn runs at most RecursionLimit (10) node steps; a turn that has used them
\* all without reaching END ends in the next step with the error reply, leaving the
\* state the turn started with (plus the error) at END, where the next turn starts.
C4_TurnStepsCapped ==
    [][/\ steps' <= RecursionLimit
       /\ (node # END /\ steps = RecursionLimit) =>
             /\ node' = END
             /\ gstate'.replies >= 1
             /\ gstate'.last_error = "Recursion limit reached"
             /\ TurnInput(gstate') = TurnInput(ginput)]_vars

\* a turn was cut off at the cap and ended with the error reply
C4_Witness ==
    /\ node = END
    /\ steps = RecursionLimit
    /\ gstate.last_error = "Recursion limit reached"
    /\ gstate.replies >= 1

(***************************************************************************)
(* Properties of the sessions (SpecSession).                               *)
(***************************************************************************)
\* C5: the turns of one session run one at a time: while a request holds a session's
\* state between its read and its save, no other request of that session has read it.
C5_OneTurnAtATime ==
    \A r1, r2 \in Requests :
        (r1 # r2 /\ req[r1].pc # "idle" /\ req[r2].pc # "idle") =>
            req[r1].session # req[r2].session

\* C6: an operation on the search cache or the session store that runs for one
\* session reads, overwrites or deletes only entries that belong to that session.
C6_NoCrossSessionAccess == glog.touched \subseteq {glog.by}

(***************************************************************************)
(* Filtering, detail lookup and the cache.                                 *)
(***************************************************************************)
\* C11: a filter request with an active city that shows drivers shows the backend's
\* answer to a search with the combined filters for the current page, never a
\* client-side selection from drivers fetched or cached earlier.
C11_FilterIsFreshSearch ==
    [][(/\ node = "filter_application_node"
        /\ gstate.pickup_city # None
        /\ ghist'.tool = "success") =>
          gstate'.current_drivers =
             BackendPage(gstate.pickup_city, gstate.current_page, page_size,
                         SchemaFilters(gstate.active_filters)).drivers]_vars

\* C12: a detail lookup for a driver id that the looked-up collection (the cached
\* page; in the tool-calling agent the fetched list) does not hold returns not-found:
\* no record comes from any other source.
C12_LookupFailsClosed ==
    (/\ wlast.op = "get_driver_details"
     /\ wlast.driver_id \notin Range(wlast.before.all_fetched_drivers))
        => wlast.output = 0

\* the key of the page the running node searches for
SearchedKey == _generate_cache_key(CliSession, gstate.pickup_city, gstate.current_page)

\* the node about to run sends a search to the backend: driver_search_node when the
\* page is not cached, filter_application_node when its fresh search is due
RunsBackendSearch ==
    \/ /\ node = "driver_search_node"
       /\ ~_get_from_cache(cache, SearchedKey).hit
    \/ /\ node = "filter_application_node"
       /\ gstate.current_drivers # <<>>
       /\ gstate.has_more_results
       /\ LET filter_result == get_drivers_with_user_filter_via_cache_tool(
                  cache, CliSession, gstate.pickup_city, gstate.current_page,
                  gstate.active_filters)
          IN  filter_result.success /\ filter_result.total < MIN_RESULTS_THRESHOLD

\* C13: a backend search that succeeds leaves its result page in the cache under the
\* key of (session, city, page), freshly written (the youngest entry, with the whole
\* TTL ahead); a backend search that fails leaves the cache as it was.
C13_SearchWritesCache ==
    [][RunsBackendSearch =>
         IF ghist'.tool = "success"
         THEN /\ cache' # <<>>
              /\ cache'[Len(cache')].key = SearchedKey
              /\ cache'[Len(cache')].data.drivers = gstate'.current_drivers
         ELSE cache' = cache]_vars

\* C14: after a node's search succeeded, a detail lookup and a booking-confirmation
\* lookup for each driver the search returned, with the same city and page in the same
\* session, succeed and return that driver.
C14_LookupAfterSearch ==
    [][(/\ node \in {"driver_search_node", "filter_application_node"}
        /\ ghist'.tool = "success") =>
          \A d \in Range(gstate'.current_drivers) :
             /\ get_driver_info_tool(cache', CliSession, gstate'.pickup_city,
                                     gstate'.current_page, d)
                  = [success |-> TRUE, driver |-> d]
             /\ book_or_confirm_ride_with_driver(cache', CliSession, gstate'.pickup_city,
                                                 gstate'.current_page, d)
                  = [success |-> TRUE, driver |-> d]]_vars

(***************************************************************************)
(* Routing, intents and the slot collector.                                *)
(***************************************************************************)
\* state.get("full_trip_details") on the graph's state: create_session does not set
\* the key and no node of the graph writes it
GraphFullTripDetails(s) == FALSE

\* the search, filter, pagination and booking handlers of the graph
ContextHandlers ==
    {"driver_search_node", "filter_application_node", "pagination_node",
     "booking_confirmation_node"}

\* C15: while fullTripDetails is false the router sends no turn to the search, filter,
\* pagination or booking handler (the intents that lead there go to the Slot Collector
\* instead).
C15_GateBeforeHandlers ==
    [][(node = "entry_node" /\ ~GraphFullTripDetails(gstate))
          => node' \notin ContextHandlers]_vars

\* C16: the intent a turn's classification yields is one of the six intent tags, and
\* a classification that failed internally yields the general intent with an error
\* recorded in the state (the turn goes on: the node returned).
C16_IntentIsOneOfSix ==
    ghist.intent # None =>
       /\ ghist.intent \in GraphIntents
       /\ ghist.failed => (ghist.intent = INTENT_GENERAL /\ gstate.last_error # Absent)

\* C17: after a run of the Slot Collector fullTripDetails is true exactly when pickup,
\* drop and trip type are set and, for a round-trip or multi-city trip, the duration
\* is set as well.
C17_CompleteIffSlotsSet ==
    last.op = "trip_info" =>
       (state.full_trip_details <=>
          /\ state.pickupLocation # None
          /\ state.dropLocation # None
          /\ state.trip_type # None
          /\ (state.trip_type \in {"round-trip", "multi-city"} => state.trip_duration # 0))

\* the slots the extraction of the last collector run yielded no value for
NotYielded ==
    {k \in {"pickupLocation", "dropLocation", "trip_type"} :
        ~last.ok \/ (CASE k = "pickupLocation" -> last.pickup
                       [] k = "dropLocation"   -> last.drop
                       [] OTHER                -> last.trip_type) = None}

NothingNew ==
    \/ ~last.ok
    \/ /\ last.pickup \in {None, last.before.pickupLocation}
       /\ last.drop \in {None, last.before.dropLocation}
       /\ last.trip_type \in {None, last.before.trip_type}
       /\ last.trip_duration \in {0, last.before.trip_duration}

\* C19: a run of the Slot Collector on a state whose trip details are complete leaves
\* every field of the state as it was and asks no question.
C19_CompleteStateUnchanged ==
    (last.op = "trip_info" /\ last.before.full_trip_details) =>
       /\ state = last.before
       /\ state.last_error = None

\* C19 (amended): a run of the Slot Collector on a state whose trip details are
\* complete asks no question and keeps the details complete; when the extraction
\* yields nothing new, it changes no field but failed_node, which it resets.
C19_CompleteStateKept ==
    (last.op = "trip_info" /\ last.before.full_trip_details) =>
       /\ state.last_error = None
       /\ state.full_trip_details
       /\ NothingNew => state = [last.before EXCEPT !.failed_node = None]

\* a run on a complete state that still names the node that failed before
C19_Witness ==
    /\ last.op = "trip_info"
    /\ last.before.full_trip_details
    /\ NothingNew
    /\ last.before.failed_node # None

\* C20: merging a call's filters into the active ones is additive: each new non-null
\* value overrides its key and every other active filter survives; the explicit clear
\* signal leaves just the newly given filters (none, for the remove-all call).
C20_FilterMergeAdditive ==
    /\ wlast.op = "get_drivers_for_city" =>
          /\ \A k \in DOMAIN wlast.new_filters :
                wlast.new_filters[k] # None =>
                   (k \in DOMAIN wstate.applied_filters
                    /\ wstate.applied_filters[k] = wlast.new_filters[k])
          /\ \A k \in DOMAIN wlast.before.applied_filters :
                (k \notin DOMAIN wlast.new_filters \/ wlast.new_filters[k] = None) =>
                   (k \in DOMAIN wstate.applied_filters
                    /\ wstate.applied_filters[k] = wlast.before.applied_filters[k])
    /\ (wlast.op = "remove_filters_from_search" /\ "all" \in wlast.keys_to_remove) =>
          wstate.applied_filters = EmptyDict

(***************************************************************************)
(* Filters, bookings and replies of the handlers.                          *)
(***************************************************************************)
\* the value one merge of A and B together leaves under a key: B's where B has the
\* key, else A's, else the value that was active before
OneMergeValue(k, active, A, B) ==
    IF k \in DOMAIN B THEN B[k] ELSE IF k \in DOMAIN A THEN A[k] ELSE active[k]

\* C21: two additive filter merges in a row, of A and then of B, leave the active
\* filters that one additive merge of A and B together leaves, with B's value on the
\* keys both have; merging the same filters a second time changes nothing.
C21_MergeAssociative ==
    (last.op = "filter" /\ last.applied /\ ~last.clear /\ last.prev_applied) =>
       /\ ~last.prev_clear =>
             /\ DOMAIN state.active_filters =
                   (DOMAIN last.prev_before) \cup (DOMAIN last.prev_filter_dict)
                      \cup (DOMAIN last.filter_dict)
             /\ \A k \in DOMAIN state.active_filters :
                   state.active_filters[k] =
                      OneMergeValue(k, last.prev_before, last.prev_filter_dict,
                                    last.filter_dict)
       /\ (last.filter_dict = last.prev_filter_dict) =>
             state.active_filters = last.before

\* two additive merges in a row whose filters share a key with different values, the
\* first with a key the second does not have
C21_Witness ==
    /\ last.op = "filter" /\ last.applied /\ ~last.clear
    /\ last.prev_applied /\ ~last.prev_clear
    /\ \E k \in (DOMAIN last.filter_dict) \cap (DOMAIN last.prev_filter_dict) :
          last.filter_dict[k] # last.prev_filter_dict[k]
    /\ (DOMAIN last.prev_filter_dict) \ (DOMAIN last.filter_dict) # {}

\* C22: a filter turn whose search comes back with no driver leaves last_error set
\* (the message naming the criteria) and current_drivers and all_drivers empty.
C22_ZeroResultsReset ==
    (last.op = "filter" /\ last.fetched /\ state.current_drivers = <<>>) =>
       /\ state.last_error # None
       /\ state.all_drivers = <<>>

\* what the filter node's two sources hold for the running filter request: the
\* client-side selection from the cached page and the backend's page for the filters
FilteredFromCache ==
    get_drivers_with_user_filter_via_cache_tool(
        cache, CliSession, gstate.pickup_city, gstate.current_page,
        gstate.active_filters).filtered_drivers

FreshFromBackend ==
    BackendPage(gstate.pickup_city, gstate.current_page, 10,
                SchemaFilters(gstate.active_filters)).drivers

NoDuplicates(seq) == \A i, j \in 1..Len(seq) : seq[i] = seq[j] => i = j

\* C23: a filter request whose cached selection has fewer than 5 drivers while more
\* pages exist performs exactly one additional backend fetch, and when the backend
\* answers, the drivers shown are the two sets merged without duplicates.
C23_OneTopUpMerged ==
    [][(node = "filter_application_node" /\ RunsBackendSearch) =>
         /\ ghist'.fetches = 1
         /\ ghist'.tool = "success" =>
               /\ Range(gstate'.current_drivers) =
                     Range(FilteredFromCache) \cup Range(FreshFromBackend)
               /\ NoDuplicates(gstate'.current_drivers)]_vars

\* the booking message of the last turn resolves to no driver: none was selected before
\* and the extraction yields no name, or a name that matches no entry of all_drivers
BookingUnresolved ==
    /\ last.before.selected_driver = NoDriver
    /\ \/ ~last.identified
       \/ last.name = 0
       \/ \A i \in 1..Len(last.before.all_drivers) :
             ~NamePartIn(last.before.all_drivers[i].driver_id, last.name)

\* C24: a booking request that resolves to no driver of all_drivers makes no
\* confirmation call and chooses no driver (selected driver and booking status stay as
\* they were); the reply asks which driver is meant and lists at most 5 names, all of
\* them drivers of all_drivers.
C24_UnresolvedNeverGuessed ==
    (last.op = "book" /\ BookingUnresolved) =>
       /\ last.target = NoDriver
       /\ ~last.confirmed
       /\ state.selected_driver = NoDriver
       /\ state.booking_status = last.before.booking_status
       /\ state.booking_details = last.before.booking_details
       /\ state.last_error \in {"driver not found", "which driver"}
       /\ Len(last.listed) <= 5
       /\ Ids(last.listed) \subseteq Ids(last.before.all_drivers)

\* a booking turn naming an unknown driver with more than 5 drivers to choose from: the
\* reply lists five of them
C24_Witness ==
    /\ last.op = "book"
    /\ BookingUnresolved
    /\ last.identified
    /\ last.name = UnknownName
    /\ Len(last.before.all_drivers) > 5
    /\ Len(last.listed) = 5
    /\ state.last_error = "driver not found"

\* the entry of all_drivers a booking message names by position
NamedEntry == last.before.all_drivers[last.position]

\* C26: a booking request naming position k of the n entries of all_drivers
\* (1 <= k <= n) calls the confirmation for entry k-1 (the k-th entry), and when that
\* confirmation succeeds the state holds a confirmed booking with that entry's details.
C26_BookByPosition ==
    (last.op = "book" /\ last.position \in 1..Len(last.before.all_drivers)) =>
       LET confirmation ==
               book_or_confirm_ride_with_driver(cache, CliSession,
                                                last.before.search_city,
                                                last.before.current_page,
                                                NamedEntry.driver_id)
       IN  /\ last.target = NamedEntry
           /\ confirmation.success =>
                 /\ state.booking_status = "confirmed"
                 /\ state.booking_details = confirmation.driver
                 /\ state.selected_driver = NamedEntry

\* C25: when the confirmation call of the booking node fails, the state holds the
\* failure's message as last_error and booking_status keeps the value it had before
\* the attempt.
C25_FailedConfirmationKeepsStatus ==
    [][(node = "booking_confirmation_node" /\ ghist'.tool = "failure") =>
        /\ gstate'.booking_status = gstate.booking_status
        /\ gstate'.last_error \notin {Absent, None}]_vars

\* C27: when a search succeeds after that stage had failed with a transient error (a
\* retry that succeeds), the state it leaves has no last_error and retry_count 0.
C27_SuccessResetsRetries ==
    [][(/\ node = "driver_search_node"
        /\ ghist.stage = "driver_search_node"
        /\ ghist.streak >= 1
        /\ ghist'.tool = "success") =>
          /\ gstate'.retry_count = 0
          /\ gstate'.last_error \in {None, Absent}]_vars

\* the categories the error handler never retries
NeverRetried == {"validation_error", "data_error"}

\* C28: a failure the error handler categorises as validation or data error is not
\* retried: the handler's step ends the turn with a reply and retry_count 0, without
\* going to the recovery node or back to the failed stage (a turn already out of steps
\* ends before the handler runs).
C28_ValidationNeverRetried ==
    [][(/\ Running("error_handler_node")
        /\ gstate.last_error \notin {Absent, None}
        /\ _categorize_error(gstate.last_error).name \in NeverRetried) =>
          /\ node' = END
          /\ gstate'.retry_count = 0
          /\ gstate'.replies >= 1
          /\ gstate'.error_history # <<>>
          /\ gstate'.error_history[Len(gstate'.error_history)] \in NeverRetried]_vars

\* a search raised a data error in a session without earlier errors and the handler
\* ended the turn
C28_Witness ==
    /\ node = END
    /\ steps = 3
    /\ ginput.error_history = <<>>
    /\ gstate.error_history = <<"data_error">>
    /\ gstate.retry_count = 0
    /\ gstate.replies >= 1

\* C29: a search that succeeds with zero drivers records no error and starts no
\* recovery (last_error and failed_node stay None), leaves current_drivers empty, and
\* the turn's reply tells the user that no drivers were found in the city.
C29_ZeroDriversReply ==
    (last.op = "search" /\ last.fetched /\ state.current_drivers = <<>>) =>
       /\ state.last_error = None
       /\ state.failed_node = None
       /\ last.reply \in NoDriversReplies

\* C30: a turn that has run to its end has added exactly one reply to the
\* conversation.
C30_OneReplyPerTurn ==
    (node = END /\ steps > 0) => gstate.replies = 1

(***************************************************************************)
(* The session store, the recovery ladder and the composer.                *)
(***************************************************************************)
\* C31: while a request holds a session's state for its turn, the stored state of that
\* session is rewritten only by that request's own save at the end of the turn, which
\* writes the turn's whole result (deleting the session is not a rewrite).
C31_StoreChangesAtTurnEnd ==
    [][\A r \in Requests :
          LET k == _get_state_key(req[r].session)
          IN  (/\ req[r].pc # "idle"
               /\ store[k] # NoState
               /\ store'[k] # NoState
               /\ store'[k] # store[k]) =>
                 /\ req[r].pc = "processed"
                 /\ req'[r] = IdleRequest
                 /\ store'[k] = <<_compress_state(req[r].state[1])>>]_vars

\* C32: a session's state is in the store exactly while less than session_ttl has
\* passed since the session's last turn (its creation included).
C32_RetrievableWithinTtl ==
    \A sid \in glog.created :
        (store[_get_state_key(sid)] # NoState) <=> (glog.since_turn[sid] < session_ttl)


\* C33: the wait before the n-th retry attempt (n = 1, 2, 3) is min(1 s * 2^(n-1), 8 s):
\* 1 s, 2 s, 4 s, never more than 8 s
C33_BackoffDoubles ==
    (ghist.method # None /\ ghist.attempt \in 1..3) =>
        /\ ghist.wait = Min(Pow2(ghist.attempt - 1), 8)
        /\ ghist.wait <= 8


\* C34: the recovery action for a failed search is the rung of the search ladder for
\* the attempt number: attempt 1 retries the search, attempt 2 drops the filters and
\* searches again, attempt 3 suggests another city
C34_SearchLadderByAttempt ==
    (/\ ghist.method # None
     /\ ghist.stage = "driver_search_node"
     /\ ghist.attempt \in 1..3) =>
        ghist.method = CASE ghist.attempt = 1 -> "retry_with_backoff"
                         [] ghist.attempt = 2 -> "search_without_filters"
                         [] OTHER             -> "suggest_different_city"


\* C36: retry is disabled only by an unbroken run of failures: when a search raises a
\* retryable error and the search before it had succeeded (the run of failures is one
\* long), the error handler sends the failure to the recovery node
C36_RetryAfterSuccess ==
    [][(/\ Running("error_handler_node")
        /\ ghist.tool = "raise"
        /\ ghist.stage = "driver_search_node"
        /\ ghist.streak = 1
        /\ ghist.succeeded
        /\ _categorize_error(gstate.last_error).retry) =>
          node' = "error_recovery_node"]_vars


\* C40: resolving a positional reference against current_drivers never indexes outside
\* the list: on every list the entry node is run with, each ordinal yields the driver
\* at its position when the list has that position, and no driver, without raising,
\* when it has not
C40_PositionalReferenceInRange ==
    Running("entry_node") =>
        \A ref \in DOMAIN Ordinals :
            LET n     == Len(gstate.current_drivers)
                pos   == IF Ordinals[ref] >= 0 THEN Ordinals[ref] + 1
                         ELSE n + Ordinals[ref] + 1
                found == _extract_driver_reference(ref, gstate)
            IN  /\ ~found.raised
                /\ found.id = IF pos \in 1..n THEN gstate.current_drivers[pos] ELSE 0


\* C39: every processed user message is followed, by the end of its turn, by at least
\* one assistant message appended after it, also when the entry stage itself fails
C39_TurnEndsWithReply ==
    (node = END /\ steps > 0) => gstate.replies >= 1


\* the filters the search of the last turn was issued with
SearchedFilters ==
    IF last.op = "search" THEN EmptyDict
    ELSE _normalize_filters_for_api(state.active_filters)

\* the page the backend answers that search with
BackendResult ==
    BackendPage(state.search_city, last.page,
                IF last.op = "search" THEN state.page_size ELSE state.limit,
                SearchedFilters)

\* C37: a search for (city, page) with filter set F never returns a cached page that
\* was fetched under another filter set: the drivers a search, filter or 'more' turn
\* returns are the backend's result for the turn's city, page and filters
C37_PageIsBackendResultForFilters ==
    (last.op \in {"search", "filter", "more"} /\ last.fetched) =>
        Ids(state.current_drivers) = Range(BackendResult.drivers)


\* C38: any driver of all_drivers can be booked: when the booking handler resolves the
\* message to a driver of all_drivers, the confirmation lookup finds the driver and the
\* booking is confirmed, also after 'more' requests have advanced current_page
C38_ListedDriverBookable ==
    (/\ last.op = "book"
     /\ last.target # NoDriver
     /\ last.target \in Range(last.before.all_drivers)) =>
        /\ last.confirmed
        /\ state.booking_status = "confirmed"


\* the replies that ask for a slot
SlotPrompts(slot) ==
    IF slot = "pickup" THEN {"ask_trip_details", "ask_pickup"}
    ELSE {"ask_trip_details", "ask_destination"}

\* C35: the composer's output is the first match of: last_error present, the error
\* text; booking just confirmed, the confirmation; a driver in focus, the answer about
\* the driver; non-empty current_drivers, the listing, with the 'more' hint exactly
\* when has_more_results; filtered to empty, the no-match message; otherwise a prompt
\* for the next missing slot
C35_ComposerPrecedence ==
    (last.op \in {"trip_info", "search", "filter", "response"} /\ ~last.raised) =>
        LET s == last.before
        IN  IF s.last_error # None THEN last.reply = "error"
            ELSE IF s.booking_status = "confirmed" THEN last.reply = "booking_confirmed"
            ELSE IF s.selected_driver # NoDriver THEN last.reply = "driver_info"
            ELSE IF s.current_drivers # <<>>
            THEN /\ last.reply = "driver_list"
                 /\ (last.hint = "show_more") <=> s.has_more_results
            ELSE IF s.is_filtered THEN last.reply \in NoDriversReplies
            ELSE IF Falsy(s.pickupLocation) THEN last.reply \in SlotPrompts("pickup")
            ELSE IF Falsy(s.dropLocation) THEN last.reply \in SlotPrompts("destination")
            ELSE TRUE

====
